---- MODULE Spec2Model ----
(***************************************************************************)
(* A model of the "Synchronize To Device" event plugin of Quod Libet       *)
(* (quodlibet/ext/events/synchronize_to_device.py): the preview pass that  *)
(* plans one entry per song and per stale file, the manual override of a   *)
(* previewed export path, and the synchronization pass that executes the   *)
(* plan on the file system. Two more components of the repository follow:  *)
(* the PlaylistPlayer of quodlibet-threadless/player.py (SpecPlayer) and   *)
(* the GNOME search provider of ext/events/searchprovider.py               *)
(* (SpecProvider); each specification leaves the other components at rest. *)
(*                                                                         *)
(* Text is modelled as a sequence of letters (one-character strings); the  *)
(* words DUPLICATE and DELETE inside the tags and the tag reference of the *)
(* export pattern count as one letter each.                                *)
(***************************************************************************)
EXTENDS Integers, Sequences, FiniteSets, TLC

VARIABLES
    destination_entry,      \* text of the destination path entry field
    export_pattern_entry,   \* text of the export pattern entry field
    enabled,                \* the saved searches whose check button is active
    library,                \* app.library: song id -> [text, filename]
    files,                  \* file system: path of every file -> its content
    dirs,                   \* file system: the directories that exist
    links,                  \* file system: the symbolic links that exist
    preview_model,          \* the ObjectStore of Entry objects, in row order
    c_songs_copy,
    c_song_dupes,
    c_songs_delete,
    running,
    expanded_destination,
    preview_start_visible,
    preview_stop_visible,
    sync_start_visible,
    sync_start_sensitive,
    sync_stop_visible,
    log,                    \* SyncLog._log
    stack,                  \* the handlers suspended in _run_pending_events
    ops,                    \* number of handlers dispatched so far
    player,                 \* the PlaylistPlayer, its pipeline and listener
    provider                \* the search provider plugin, the bus, the app

vars == << destination_entry, export_pattern_entry, enabled, library, files,
           dirs, links, preview_model, c_songs_copy, c_song_dupes, c_songs_delete,
           running, expanded_destination, preview_start_visible,
           preview_stop_visible, sync_start_visible, sync_start_sensitive,
           sync_stop_visible, log, stack, ops, player, provider >>

-----------------------------------------------------------------------------
(* Text helpers (Python str methods used by the plugin).                   *)

EmptyText == << >>

\* the positions of letter c in s
Positions(s, c) == { k \in 1..Len(s) : s[k] = c }

Max(S) == CHOOSE m \in S : \A k \in S : k <= m

Min(S) == CHOOSE m \in S : \A k \in S : m <= k

\* s.split(c)[-1]: what follows the last occurrence of c (all of s if none)
LastSegment(s, c) ==
    IF Positions(s, c) = {} THEN s
    ELSE SubSeq(s, Max(Positions(s, c)) + 1, Len(s))

\* s.strip(): leading and trailing blanks removed
Strip(s) ==
    LET keep == { k \in 1..Len(s) : s[k] # " " }
    IN  IF keep = {} THEN EmptyText ELSE SubSeq(s, Min(keep), Max(keep))

\* s.rstrip(c)
RECURSIVE RStrip(_, _)
RStrip(s, c) ==
    IF s # EmptyText /\ s[Len(s)] = c THEN RStrip(SubSeq(s, 1, Len(s) - 1), c)
    ELSE s

\* s.split(c), empty pieces included
RECURSIVE SplitOn(_, _)
SplitOn(s, c) ==
    IF Positions(s, c) = {} THEN << s >>
    ELSE LET k == Min(Positions(s, c))
         IN  << SubSeq(s, 1, k - 1) >> \o SplitOn(SubSeq(s, k + 1, Len(s)), c)

\* c.join(pieces)
RECURSIVE JoinWith(_, _)
JoinWith(pieces, c) ==
    IF pieces = << >> THEN EmptyText
    ELSE IF Len(pieces) = 1 THEN pieces[1]
    ELSE pieces[1] \o << c >> \o JoinWith(Tail(pieces), c)

\* the members of a sequence
Range(s) == { s[k] : k \in 1..Len(s) }

-----------------------------------------------------------------------------
(* Path helpers (os.path and pathlib on a POSIX system).                   *)

Sep == "/"

\* the home directory of the user running the program
Home == << "/", "h" >>

\* os.path.expanduser: "~" and "~/..." name the home directory; "~name" of
\* an unknown user is left alone
ExpandUser(p) ==
    IF p = EmptyText \/ p[1] # "~" THEN p
    ELSE IF Len(p) = 1 \/ p[2] = Sep
         THEN LET r == RStrip(Home, Sep) \o SubSeq(p, 2, Len(p))
              IN  IF r = EmptyText THEN << Sep >> ELSE r
         ELSE p

\* os.path.join of two paths
JoinPath(a, b) ==
    IF b # EmptyText /\ b[1] = Sep THEN b
    ELSE IF a = EmptyText \/ a[Len(a)] = Sep THEN a \o b
    ELSE a \o << Sep >> \o b

\* os.path.dirname
Dirname(p) ==
    IF Positions(p, Sep) = {} THEN EmptyText
    ELSE LET head == SubSeq(p, 1, Max(Positions(p, Sep)))
         IN  IF RStrip(head, Sep) = EmptyText THEN head ELSE RStrip(head, Sep)

\* pathlib.PurePosixPath(p).parts: the root "/" first when p is absolute,
\* then every non-empty component that is not "."
Parts(p) ==
    LET comps == SelectSeq(SplitOn(p, Sep),
                           LAMBDA c : c # EmptyText /\ c # << "." >>)
    IN  IF p # EmptyText /\ p[1] = Sep THEN << << Sep >> >> \o comps ELSE comps

\* str(pathlib.PurePosixPath) of a sequence of parts
PartsToText(parts) ==
    IF parts # << >> /\ parts[1] = << Sep >>
    THEN << Sep >> \o JoinWith(Tail(parts), Sep)
    ELSE JoinWith(parts, Sep)

\* a slip in the descendant test: only the first parts are compared
IsRelativeToFirstPart(p, root) ==
    /\ Len(Parts(p)) >= Len(Parts(root))
    /\ IF Parts(root) = << >> THEN TRUE ELSE Parts(p)[1] = Parts(root)[1]

\* Path(p).relative_to(root) succeeds: the parts of root begin those of p
IsRelativeTo(p, root) ==
    LET pp == Parts(p)
        rp == Parts(root)
    IN  Len(pp) >= Len(rp) /\ SubSeq(pp, 1, Len(rp)) = rp

\* Path(p).relative_to(root), as parts
RelativeTo(p, root) ==
    SubSeq(Parts(p), Len(Parts(root)) + 1, Len(Parts(p)))

-----------------------------------------------------------------------------
(* Entry and Entry.Tags.                                                   *)

tag_start == "<"

tag_end == ">"

BLANK == EmptyText

DUPLICATE == << tag_start, "DUPLICATE", tag_end >>

DELETE == << tag_start, "DELETE", tag_end >>

STATUS_EXISTS == "Skip existing file"

STATUS_COPY == "Writing"

\* the value of song for an entry found on the destination side
NoSong == 0

\* Entry(song, export_path); fname is the _filename of an entry without song
NewEntry(song, export_path, fname) ==
    [ song |-> song, export_path |-> export_path, tag |-> BLANK,
      filename |-> fname ]

set_duplicate_tag(entry) == [ entry EXCEPT !.tag = DUPLICATE ]

set_delete_tag(entry) == [ entry EXCEPT !.tag = DELETE ]

remove_tag(entry) == [ entry EXCEPT !.tag = BLANK ]

\* Entry._set_export_display: every setter recomputes it, so it is always
\* this function of the tag and the path
export_display(entry) ==
    LET space == IF entry.export_path = EmptyText \/ entry.tag = BLANK
                 THEN EmptyText ELSE << " " >>
    IN  entry.tag \o space \o entry.export_path

\* Entry.filename: the song's ~filename, or the stored name
EntryFilename(entry) ==
    IF entry.song # NoSong THEN library[entry.song].filename
    ELSE entry.filename

-----------------------------------------------------------------------------
(* SyncToDevice._make_safe_name.                                           *)

\* unicodedata.normalize('NFKD', c) for the letters of the model
Decompose(c) ==
    IF c = "e_acute" THEN << "e", "combining_acute" >>
    ELSE IF c = "y_diaeresis" THEN << "y", "combining_diaeresis" >>
    ELSE << c >>

\* unicodedata.combining(c) # 0
Combining(c) == c \in { "combining_acute", "combining_diaeresis" }

\* the letters of the model in the range U+00FF..U+FFFF
HighLetters ==
    { "y_diaeresis", "combining_acute", "combining_diaeresis", "cjk" }

\* unsafe_filename_chars
unsafe_filename_chars ==
    { "<", ">", ":", "\"", "/", "\\", "|", "?", "*" } \cup HighLetters

RECURSIVE NFKD(_)
NFKD(s) == IF s = EmptyText THEN EmptyText
           ELSE Decompose(Head(s)) \o NFKD(Tail(s))

\* unsafe_filename_chars.sub('_', component)
SubUnsafe(component) ==
    [ k \in 1..Len(component) |->
        IF component[k] \in unsafe_filename_chars THEN "_" ELSE component[k] ]

\* re.sub('_{2,}', '_', component)
RECURSIVE CollapseUnderscores(_)
CollapseUnderscores(s) ==
    IF Len(s) < 2 THEN s
    ELSE IF s[1] = "_" /\ s[2] = "_" THEN CollapseUnderscores(Tail(s))
    ELSE << s[1] >> \o CollapseUnderscores(Tail(s))

\* a slip in the loop below: the runs of underscores are collapsed before the
\* unsafe characters are replaced
SafePartsCollapseFirst(parts) ==
    [ k \in 1..Len(parts) |->
        IF k > 1 THEN SubUnsafe(CollapseUnderscores(parts[k])) ELSE parts[k] ]

\* the loop over Path(safe_filename).parts: the first part is kept as it is
SafeParts(parts) ==
    [ k \in 1..Len(parts) |->
        IF k > 1 THEN CollapseUnderscores(SubUnsafe(parts[k])) ELSE parts[k] ]

\* os.path.join(*parts)
RECURSIVE JoinAll(_)
JoinAll(parts) ==
    IF Len(parts) = 1 THEN parts[1]
    ELSE JoinPath(parts[1], JoinAll(Tail(parts)))

\* input_parts: the parts of a relative Path
_make_safe_name(input_parts) ==
    LET text     == PartsToText(input_parts)
        stripped == SelectSeq(NFKD(text), LAMBDA c : ~Combining(c))
    IN  JoinAll(SafeParts(Parts(stripped)))

-----------------------------------------------------------------------------
(* File system.                                                            *)

\* a slip in the existence test: only directories are found
ExistsDirOnly(p) == p \in dirs

\* the directory every symbolic link of the model points to: a directory
\* next to the songs, outside every destination
LinkTarget == << "/", "m", "e" >>

\* os.path.realpath(p) for a directory entry p that os.walk lists
realpath(ls, p) == IF p \in ls THEN LinkTarget ELSE p

\* the links that os.walk lists as directories (is_dir follows the link),
\* and the broken ones, which it lists as files
LiveLinks(ds, ls) == { l \in ls : LinkTarget \in ds }

BrokenLinks(ds, ls) == ls \ LiveLinks(ds, ls)

\* os.path.exists: a link exists when what it points to exists
Exists(p) == p \in DOMAIN files \/ p \in dirs \/ p \in LiveLinks(dirs, links)

\* a path and the directories above it, the root directory excluded
RECURSIVE Ancestors(_)
Ancestors(d) ==
    IF d = EmptyText \/ d = << Sep >> THEN {}
    ELSE {d} \cup Ancestors(Dirname(d))

\* os.makedirs(d, exist_ok=True) raises: d is empty, or d or a directory
\* above it exists as a file
MakedirsFails(d) ==
    d = EmptyText \/ \E a \in Ancestors(d) : a \in DOMAIN files

\* shutil.copyfile(src, dst) raises: no file src, or dst is a directory
CopyfileFails(src, dst) == src \notin DOMAIN files \/ dst \in dirs

\* the file system function with dst added or replaced
WriteFile(fs, dst, content) ==
    [ p \in DOMAIN fs \cup {dst} |-> IF p = dst THEN content ELSE fs[p] ]

\* a slip in the removal: the file stays
RemoveFileKeeps(fs, p) == fs

\* os.remove(p) of a file: the file system function without p
RemoveFile(fs, p) == [ q \in DOMAIN fs \ {p} |-> fs[q] ]

\* text order of paths: the order in which a directory is listed
Rank(c) ==
    CASE c = "/" -> 1 [] c = "a" -> 2 [] c = "b" -> 3 [] c = "c" -> 4
      [] c = "e" -> 5 [] c = "h" -> 6 [] c = "l" -> 7 [] c = "m" -> 8
      [] c = "x" -> 9 [] c = "y" -> 10
      [] OTHER -> 11

RECURSIVE TextLess(_, _)
TextLess(s, t) ==
    IF t = EmptyText THEN FALSE
    ELSE IF s = EmptyText THEN TRUE
    ELSE IF Rank(s[1]) # Rank(t[1]) THEN Rank(s[1]) < Rank(t[1])
    ELSE TextLess(Tail(s), Tail(t))

\* a set of paths as a sequence in text order
RECURSIVE Sorted(_)
Sorted(S) ==
    IF S = {} THEN << >>
    ELSE LET m == CHOOSE p \in S : \A q \in S \ {p} : TextLess(p, q)
         IN  << m >> \o Sorted(S \ {m})

\* the files directly in directory d, and its subdirectories
FilesIn(fs, d) == { p \in DOMAIN fs : Dirname(p) = d }

SubdirsOf(ds, d) == { q \in ds : Dirname(q) = d /\ q # d }

\* os.walk(top): the file paths in the order top-down walking yields them;
\* a link to a directory is listed as a directory and not entered, a
\* broken link is listed as a file
RECURSIVE WalkFiles(_, _, _, _)
WalkFiles(fs, ds, ls, top) ==
    LET sub == Sorted(SubdirsOf(ds, top))
        F[k \in 0..Len(sub)] ==
            IF k = 0
            THEN Sorted(FilesIn(fs, top)
                        \cup { l \in BrokenLinks(ds, ls) : Dirname(l) = top })
            ELSE F[k - 1] \o WalkFiles(fs, ds, ls, sub[k])
    IN  IF top \in ds THEN F[Len(sub)] ELSE << >>

\* a slip in the walk: every directory below top, parents first
RECURSIVE WalkDirsTopDown(_, _)
WalkDirsTopDown(ds, top) ==
    LET sub == Sorted(SubdirsOf(ds, top))
        F[k \in 0..Len(sub)] ==
            IF k = 0 THEN << >>
            ELSE F[k - 1] \o << sub[k] >> \o WalkDirsTopDown(ds, sub[k])
    IN  IF top \in ds THEN F[Len(sub)] ELSE << >>

\* os.walk(top, topdown=False): every directory below top, children first
RECURSIVE WalkDirsBottomUp(_, _)
WalkDirsBottomUp(ds, top) ==
    LET sub == Sorted(SubdirsOf(ds, top))
        F[k \in 0..Len(sub)] ==
            IF k = 0 THEN << >>
            ELSE F[k - 1] \o WalkDirsBottomUp(ds, sub[k]) \o << sub[k] >>
    IN  IF top \in ds THEN F[Len(sub)] ELSE << >>

-----------------------------------------------------------------------------
(* Log lines. A line is a tuple: its fixed words first, then its data.     *)
(* The counters that number the lines of a synchronization are left out.   *)

Line(text) == << text >>

SummaryLine(copy, dupes, delete) ==
    << "Synchronization will:", copy, dupes, delete >>

ChangedLine(others) == << "Entry path changed successfully.", others >>

FailedLine(title) == << "Synchronization failed:", title >>

EntryLine(status, path) == << status, path >>

FailedToDelete(path) == << "Failed to delete:", path >>

-----------------------------------------------------------------------------
(* SyncToDevice._get_paths and SyncToDevice._row_edited.                   *)

\* a slip in the loop of _get_paths: only the entries tagged as duplicates
\* are counted
CountedDuplicates(model) ==
    { k \in 1..Len(model) : model[k].tag = DUPLICATE }

\* the rows _get_paths counts
Counted(model) ==
    { k \in 1..Len(model) :
        model[k].tag # DELETE /\ export_display(model[k]) # EmptyText }

\* the dictionary export path -> number of counted entries with that path
_get_paths(model) ==
    [ p \in { model[k].export_path : k \in Counted(model) } |->
        Cardinality({ k \in Counted(model) : model[k].export_path = p }) ]

\* The plan and its counters while a handler works on them
PlanState(model, copy, dupes, delete) ==
    [ model |-> model, copy |-> copy, dupes |-> dupes, delete |-> delete ]

_make_duplicate(st, k, old_unique) ==
    [ st EXCEPT !.model[k] = set_duplicate_tag(@),
                !.dupes = @ + 1,
                !.copy = IF old_unique THEN @ - 1 ELSE @ ]

\* a slip in _make_unique: the duplicate counter is left alone
MakeUniqueKeepsDupes(st, k, old_duplicate) ==
    [ st EXCEPT !.model[k] = remove_tag(@), !.copy = @ + 1 ]

_make_unique(st, k, old_duplicate) ==
    [ st EXCEPT !.model[k] = remove_tag(@),
                !.copy = @ + 1,
                !.dupes = IF old_duplicate THEN @ - 1 ELSE @ ]

\* a slip in _make_skip: the tag stays
MakeSkipKeepsTag(st, k) ==
    [ st EXCEPT !.model[k].export_path = EmptyText ]

\* _make_skip without its return value: the caller stores counter - 1
_make_skip(st, k) ==
    [ st EXCEPT !.model[k] = [ remove_tag(@) EXCEPT !.export_path = EmptyText ] ]

\* one round of the loop of _update_others, for row j
UpdateOther(acc, j, k, new_path) ==
    LET st == acc.st
        e  == st.model[j]
    IN  IF j = k \/ export_display(e) = DELETE \/ export_display(e) = EmptyText
        THEN acc
        ELSE IF e.export_path = new_path /\ e.tag = BLANK
        THEN [ st |-> _make_duplicate(st, j, TRUE), counter |-> acc.counter + 1 ]
        ELSE IF /\ e.tag = DUPLICATE
                /\ e.export_path # new_path
                /\ _get_paths(st.model)[e.export_path] = 1
        THEN [ st |-> _make_unique(st, j, TRUE), counter |-> acc.counter + 1 ]
        ELSE acc

\* _update_others for the edited row k: the rows are visited in order
_update_others(st0, k, new_path) ==
    LET F[j \in 0..Len(st0.model)] ==
            IF j = 0 THEN [ st |-> st0, counter |-> 0 ]
            ELSE UpdateOther(F[j - 1], j, k, new_path)
    IN  F[Len(st0.model)]

\* the result [st, counter] of a branch that does not call _update_others
NoOthers(st) == [ st |-> st, counter |-> 0 ]

SetPath(st, k, new_path) == [ st EXCEPT !.model[k].export_path = new_path ]

\* a slip in the branch below: the entry is marked a duplicate once more
DuplicateCountedAgain(st, k, new_path) ==
    NoOthers(SetPath(_make_duplicate(st, k, FALSE), k, new_path))

\* the branch "old duplicate, new duplicate": only the path is stored
DuplicateToDuplicate(st, k, new_path) == NoOthers(SetPath(st, k, new_path))

\* the chain of branches of _row_edited for row k of st and the text entered
EditBranches(st, k, new_text, root) ==
    LET entry    == st.model[k]
        old_dup  == entry.tag = DUPLICATE
        old_del  == entry.tag = DELETE
        old_blk  == export_display(entry) = EmptyText
        old_unq  == ~(old_dup \/ old_del \/ old_blk)
        new_path == Strip(LastSegment(new_text, tag_end))
        new_dup  == new_path \in DOMAIN _get_paths(st.model)
        new_del  == new_text = DELETE
        new_blk  == new_text = EmptyText
        new_unq  == ~(new_dup \/ new_del \/ new_blk)
    IN  \* If the old path was blank...
        IF old_blk /\ new_blk THEN NoOthers(st)
        ELSE IF old_blk /\ new_del THEN
            IF IsRelativeTo(EntryFilename(entry), root)
            THEN NoOthers([ st EXCEPT !.model[k] = set_delete_tag(@),
                                      !.delete = @ + 1 ])
            ELSE NoOthers(st)
        ELSE IF old_blk /\ new_dup THEN
            NoOthers(SetPath(_make_duplicate(st, k, FALSE), k, new_path))
        ELSE IF old_blk /\ new_unq THEN
            NoOthers(SetPath(_make_unique(st, k, FALSE), k, new_path))
        \* If the old path was a deletion...
        ELSE IF old_del /\ new_blk THEN
            NoOthers([ _make_skip(st, k) EXCEPT !.delete = st.delete - 1 ])
        ELSE IF old_del THEN NoOthers(st)
        \* If the old path was a duplicate...
        ELSE IF old_dup /\ (new_blk \/ new_del) THEN
            _update_others([ _make_skip(st, k) EXCEPT !.dupes = st.dupes - 1 ],
                           k, new_path)
        ELSE IF old_dup /\ new_dup THEN DuplicateToDuplicate(st, k, new_path)
        ELSE IF old_dup /\ new_unq THEN
            NoOthers(SetPath(_make_unique(st, k, TRUE), k, new_path))
        \* If the old path was unique...
        ELSE IF old_unq /\ (new_blk \/ new_del) THEN
            _update_others([ _make_skip(st, k) EXCEPT !.copy = st.copy - 1 ],
                           k, new_path)
        ELSE IF old_unq /\ new_dup THEN
            NoOthers(SetPath(_make_duplicate(st, k, TRUE), k, new_path))
        ELSE
            _update_others(SetPath(st, k, new_path), k, new_path)

-----------------------------------------------------------------------------
(* The inputs: saved searches, library, export pattern.                    *)

\* the saved searches of queries.saved, and the songs each one matches
Queries == { "q1", "q2" }

QuerySearch(query, song) ==
    \/ query = "q1" /\ song \in { 1, 2 }
    \/ query = "q2" /\ song \in { 2, 3 }

\* the letter of the export pattern that stands for its tag references
TagRef == "<tags>"

\* FileFromPattern(full_export_path).format(song): the tag references are
\* replaced by their values for the song and the user directory is expanded
PatternFormat(full_export_path, song) ==
    LET F[k \in 0..Len(full_export_path)] ==
            IF k = 0 THEN EmptyText
            ELSE F[k - 1] \o ( IF full_export_path[k] = TagRef
                               THEN library[song].text
                               ELSE << full_export_path[k] >> )
    IN  ExpandUser(F[Len(full_export_path)])

\* a slip in the selection: the songs are collected query by query
SongsPerQuery ==
    LET all == [ k \in 1..Len(library) |-> k ]
        of(q) == SelectSeq(all, LAMBDA song : QuerySearch(q, song))
    IN  ( IF "q1" \in enabled THEN of("q1") ELSE << >> )
        \o ( IF "q2" \in enabled THEN of("q2") ELSE << >> )

\* SyncToDevice._get_songs_from_queries: the songs of the library, in its
\* order, that an enabled saved search matches
_get_songs_from_queries ==
    SelectSeq([ k \in 1..Len(library) |-> k ],
              LAMBDA song : \E q \in enabled : QuerySearch(q, song))

-----------------------------------------------------------------------------
(* The handlers suspended in _run_pending_events. Every frame of the stack *)
(* is a preview pass or a synchronization pass waiting, inside its loop,   *)
(* for the pending GUI events to be handled.                               *)

\* _run_preview before song number i of songs; export_paths as collected
PreviewFrame(songs, i, export_paths, destination_path, pattern) ==
    [ op |-> "preview", songs |-> songs, i |-> i,
      export_paths |-> export_paths, destination_path |-> destination_path,
      pattern |-> pattern, live |-> FALSE, entries |-> << >> ]

\* _run_sync before entry number i of the list preview_model.values(): the
\* list holds the Entry objects that were in the model when the pass began.
\* While the model still holds these objects (live) they are read from it;
\* once a preview has cleared the model the list keeps them as they were.
SyncFrame(i, live, entries) ==
    [ op |-> "sync", songs |-> << >>, i |-> i, export_paths |-> << >>,
      destination_path |-> EmptyText, pattern |-> EmptyText,
      live |-> live, entries |-> entries ]

Top == stack[Len(stack)]

Below == SubSeq(stack, 1, Len(stack) - 1)

\* preview_model.clear(): the lists of the suspended passes keep the objects
Detach(stk, model) ==
    [ k \in 1..Len(stk) |->
        IF stk[k].live THEN [ stk[k] EXCEPT !.live = FALSE, !.entries = model ]
        ELSE stk[k] ]

-----------------------------------------------------------------------------
(* Bounds and the sets the inputs are drawn from.                          *)

\* the number of handlers (preview, synchronization, edit) one run starts
MaxOps == 3

\* the number of passes that may be suspended in one another
MaxDepth == 2

TextA == << "a" >>

TextB1 == << "x", "/", "b", "?" >>

TextB2 == << "x", "/", "b", "_" >>

SongFile(k) == << "/", "m", "/", << "1", "2", "3" >>[k] >>

MakeLibrary(texts, names) ==
    [ k \in 1..Len(texts) |-> [ text |-> texts[k], filename |-> names[k] ] ]

\* tags that render to a single component with an unsafe character
TextQ == << "a", "?" >>

\* tags with two unsafe characters in a row
TextB3 == << "x", "/", "b", "?", "?" >>

StaleA == Home \o << "/", "a" >>

\* the second library keeps one song below the home directory, which the
\* destination '~' names
Libraries ==
    { MakeLibrary(<< TextA, TextA, TextB3 >>,
                  << SongFile(1), SongFile(2), SongFile(3) >>),
      MakeLibrary(<< TextB1, TextQ, TextB2 >>,
                  << SongFile(1), StaleA, SongFile(3) >>) }

DestinationTexts == { EmptyText, << "~" >> }

\* an export pattern that starts from the root of the file system
AbsolutePattern == << Sep, "y", Sep, TagRef >>

PatternTexts == { EmptyText, << TagRef >>, AbsolutePattern }

StaleC == Home \o << "/", "x", "/", "y", "/", "c" >>

\* a file where the plan needs a directory
StaleX == Home \o << "/", "x" >>

\* the destination holds nothing, or a file in its root and a file two
\* folders down, or a file where the plan needs a folder
InitialFileSets == { {}, { StaleA, StaleC }, { StaleX } }

\* the paths a user types into a row: the planned ones and a stale file's
EditPaths ==
    { JoinPath(destination_entry, TextA),
      JoinPath(destination_entry, TextB2),
      StaleC }

\* the texts a user types into a row: nothing, a tag, a path, a path with a
\* blank after it, a path with the Duplicate tag before it, and a text that
\* ends with the end of a tag
EditTexts ==
    { EmptyText, DELETE }
    \cup EditPaths
    \cup { p \o << " " >> : p \in EditPaths }
    \cup { DUPLICATE \o << " " >> \o p : p \in EditPaths }
    \cup { JoinPath(destination_entry, TextA) \o << tag_end >> }

\* what a file found at the destination holds; a song file holds its own name
OldContent == << "old" >>

-----------------------------------------------------------------------------
(* Initial state: the preferences pane as PluginPreferences builds it.     *)

\* PlaylistPlayer after __init__: the class attributes, then
\* self.paused = True, which finds no listener and no URI; the playbin is
\* in its initial state and nothing is set up
PlayerConstructed ==
    [ paused |-> TRUE, song |-> NoSong, length |-> 1, uri |-> NoSong,
      state |-> "NULL", attached |-> FALSE, current |-> NoSong,
      idle |-> 0, calls |-> << >> ]

\* the songs of app.library, in the order in which it is iterated
ProviderSongs == << 1, 2, 3 >>

\* the plugin module once it is loaded: no SearchProvider object (obj),
\* so no _own_id and no _registered_ids; on the bus no name requested
\* (owned), none released (unown_calls), no object registered (objects:
\* pairs of id and interface; registrations counts them) and none
\* unregistered (unregister_calls); app.library and app.player (paused,
\* go_to_calls) as the application made them; no method called yet (called,
\* result)
ProviderLoaded ==
    [ obj |-> FALSE, own_id |-> NoSong, registered_ids |-> << >>,
      owned |-> {}, unown_calls |-> << >>, objects |-> {},
      registrations |-> 0, unregister_calls |-> << >>,
      library |-> ProviderSongs, paused |-> TRUE, go_to_calls |-> << >>,
      called |-> << >>, result |-> << >> ]

\* a link in the destination to an empty directory elsewhere
LinkL == Home \o << "/", "l" >>

\* the links there may be at the start, given the files there are
InitialLinks(present) ==
    IF present = {} THEN { {}, { LinkL } } ELSE { {} }

Init ==
    /\ destination_entry \in DestinationTexts
    /\ export_pattern_entry \in PatternTexts
    /\ enabled \in SUBSET Queries
    /\ library \in Libraries
    /\ \E present \in InitialFileSets :
        /\ files = [ p \in present \cup { library[k].filename :
                                          k \in 1..Len(library) } |->
                       IF p \in present THEN OldContent ELSE p ]
        /\ links \in InitialLinks(present)
        /\ dirs = { Home, << "/", "m" >> }
                  \cup UNION { Ancestors(Dirname(p)) : p \in present }
                  \cup ( IF links = {} THEN {} ELSE { LinkTarget } )
    /\ preview_model = << >>
    /\ c_songs_copy = 0
    /\ c_song_dupes = 0
    /\ c_songs_delete = 0
    /\ running = FALSE
    /\ expanded_destination = EmptyText
    /\ preview_start_visible = TRUE
    /\ preview_stop_visible = FALSE
    /\ sync_start_visible = TRUE
    /\ sync_start_sensitive = FALSE
    /\ sync_stop_visible = FALSE
    /\ log = << >>
    /\ stack = << >>
    /\ ops = 0
    /\ player = PlayerConstructed
    /\ provider = ProviderLoaded

inputs == << destination_entry, export_pattern_entry, enabled, library >>

disk == << files, dirs, links >>

preview_buttons == << preview_start_visible, preview_stop_visible >>

sync_buttons == << sync_start_visible, sync_stop_visible >>

SetPlan(st) ==
    /\ preview_model' = st.model
    /\ c_songs_copy' = st.copy
    /\ c_song_dupes' = st.dupes
    /\ c_songs_delete' = st.delete

CurrentPlan ==
    PlanState(preview_model, c_songs_copy, c_song_dupes, c_songs_delete)

-----------------------------------------------------------------------------
(* Preview: _start_preview, _run_preview, _stop_preview.                   *)

\* the path _get_export_path plans for a song, given the text of the
\* destination entry and the full export pattern
PlannedPath(song, destination_path, pattern) ==
    JoinPath(destination_path,
             _make_safe_name(RelativeTo(PatternFormat(pattern, song),
                                        ExpandUser(destination_path))))

\* the relative names the current inputs make _get_export_path sanitize
RelativeNames ==
    LET pattern  == JoinPath(destination_entry, export_pattern_entry)
        root     == ExpandUser(destination_entry)
        inside   == { song \in 1..Len(library) :
                        IsRelativeTo(PatternFormat(pattern, song), root) }
    IN  IF destination_entry = EmptyText \/ export_pattern_entry = EmptyText
        THEN {}
        ELSE { RelativeTo(PatternFormat(pattern, song), root) : song \in inside }

\* a slip in the duplicate test: only the path planned last is compared
AlreadyPlannedLastOnly(expanded_path, export_paths) ==
    export_paths # << >> /\ expanded_path = export_paths[Len(export_paths)]

\* "expanded_path in export_paths": the path was planned earlier in this pass
AlreadyPlanned(expanded_path, export_paths) ==
    expanded_path \in Range(export_paths)

\* a slip in the listing of files to delete: every file found is listed
IsStaleAlways(file_path, export_paths) == TRUE

\* "file_path not in export_paths": no song is planned to this file
IsStale(file_path, export_paths) == file_path \notin Range(export_paths)

\* the entries "List files to delete" appends for the files walked
DeleteEntries(walked, export_paths) ==
    LET stale == SelectSeq(walked, LAMBDA f : IsStale(f, export_paths))
    IN  [ k \in 1..Len(stale) |->
            set_delete_tag(NewEntry(NoSong, EmptyText, stale[k])) ]

\* a slip in the failure path: the model is cleared before the inputs are
\* validated
PreviewFailedCleared(lg, st, stk) ==
    /\ log' = lg
    /\ SetPlan(PlanState(<< >>, 0, 0, 0))
    /\ stack' = stk
    /\ running' = FALSE
    /\ preview_start_visible' = TRUE
    /\ preview_stop_visible' = FALSE
    /\ UNCHANGED sync_start_sensitive

\* _run_preview returned False, or _get_valid_inputs failed: _start_preview
\* calls _stop_preview(None) and returns
PreviewFailed(lg, st, stk) ==
    /\ log' = lg
    /\ SetPlan(st)
    /\ stack' = stk
    /\ running' = FALSE
    /\ preview_start_visible' = TRUE
    /\ preview_stop_visible' = FALSE
    /\ UNCHANGED sync_start_sensitive

\* a slip in the preview: the directories of the paths to plan are created
PreviewDiskMakesDirs ==
    /\ files' = files
    /\ links' = links
    /\ dirs' = dirs \cup UNION { Ancestors(Dirname(
                    JoinPath(ExpandUser(destination_entry), _make_safe_name(p)))) :
                    p \in RelativeNames }

\* what a step of the preview does to the file system: os.path.expanduser,
\* Path.relative_to and os.walk only read
PreviewDisk == UNCHANGED << files, dirs, links >>

\* the songs are done: the files to delete are listed, the summary is
\* updated, _run_preview returns True and _start_preview finishes
PreviewFinished(lg, st, export_paths, root, stk) ==
    LET deletes == DeleteEntries(WalkFiles(files, dirs, links, root),
                                 export_paths)
        done    == [ st EXCEPT !.model = @ \o deletes,
                               !.delete = @ + Len(deletes) ]
    IN  /\ log' = lg \o << SummaryLine(done.copy, done.dupes, done.delete),
                           Line("Finished synchronization preview.") >>
        /\ SetPlan(done)
        /\ stack' = stk
        /\ running' = FALSE
        /\ preview_start_visible' = TRUE
        /\ preview_stop_visible' = FALSE
        /\ sync_start_sensitive' = TRUE

\* the head of the loop over the songs, before song number i
PreviewLoop(lg, st, frame, root, stk, run, pstart, pstop) ==
    IF frame.i > Len(frame.songs)
    THEN PreviewFinished(lg, st, frame.export_paths, root, stk)
    ELSE IF ~run
    THEN PreviewFailed(Append(lg, Line("Stopped synchronization preview.")),
                       st, stk)
    ELSE \* _run_pending_events
         /\ log' = lg
         /\ SetPlan(st)
         /\ stack' = Append(stk, frame)
         /\ running' = run
         /\ preview_start_visible' = pstart
         /\ preview_stop_visible' = pstop
         /\ UNCHANGED sync_start_sensitive

\* a click on the Preview button: _start_preview up to the first call of
\* _run_pending_events, or to its end
StartPreview ==
    /\ UNCHANGED << player, provider >>
    /\ preview_start_visible
    /\ ops < MaxOps
    /\ Len(stack) < MaxDepth
    /\ ops' = ops + 1
    /\ LET lg == Append(log, Line("Starting synchronization preview."))
       IN  IF destination_entry = EmptyText
           THEN /\ PreviewFailed(
                     Append(lg, FailedLine("No destination path provided")),
                     CurrentPlan, stack)
                /\ UNCHANGED expanded_destination
           ELSE IF export_pattern_entry = EmptyText
           THEN /\ PreviewFailed(
                     Append(lg, FailedLine("No export pattern provided")),
                     CurrentPlan, stack)
                /\ UNCHANGED expanded_destination
           ELSE /\ expanded_destination' = ExpandUser(destination_entry)
                /\ PreviewLoop(lg, PlanState(<< >>, 0, 0, 0),
                       PreviewFrame(_get_songs_from_queries, 1, << >>,
                           destination_entry,
                           JoinPath(destination_entry, export_pattern_entry)),
                       ExpandUser(destination_entry),
                       Detach(stack, preview_model), TRUE, FALSE, TRUE)
    /\ PreviewDisk
    /\ UNCHANGED << inputs, sync_buttons >>

\* the body of the loop for song number i, after _run_pending_events, and
\* on to the next call of _run_pending_events or to the end of the pass
PreviewStep ==
    /\ UNCHANGED << player, provider >>
    /\ stack # << >>
    /\ Top.op = "preview"
    /\ LET frame    == Top
           song     == frame.songs[frame.i]
           new_name == PatternFormat(frame.pattern, song)
       IN  IF ~IsRelativeTo(new_name, expanded_destination)
           THEN PreviewFailed(
                    Append(log, FailedLine(
                        "Mismatch between destination path and export pattern")),
                    CurrentPlan, Below)
           ELSE
           LET export_path == JoinPath(frame.destination_path,
                                _make_safe_name(
                                    RelativeTo(new_name, expanded_destination)))
               expanded_path == ExpandUser(export_path)
               entry    == NewEntry(song, export_path, EmptyText)
               is_dup   == AlreadyPlanned(expanded_path, frame.export_paths)
               st       == IF is_dup
                           THEN [ CurrentPlan EXCEPT
                                    !.model = Append(@, set_duplicate_tag(entry)),
                                    !.dupes = @ + 1 ]
                           ELSE [ CurrentPlan EXCEPT
                                    !.model = Append(@, entry),
                                    !.copy = @ + 1 ]
               next     == [ frame EXCEPT
                               !.i = @ + 1,
                               !.export_paths =
                                   IF is_dup THEN @ ELSE Append(@, expanded_path) ]
           IN  PreviewLoop(log, st, next, expanded_destination, Below, running,
                           preview_start_visible, preview_stop_visible)
    /\ PreviewDisk
    /\ UNCHANGED << inputs, sync_buttons, expanded_destination, ops >>

\* a click on the Stop preview button: _stop_preview(button)
StopPreviewClick ==
    /\ UNCHANGED << player, provider >>
    /\ preview_stop_visible
    /\ log' = Append(log, Line("Stopping synchronization preview."))
    /\ running' = FALSE
    /\ preview_start_visible' = TRUE
    /\ preview_stop_visible' = FALSE
    /\ UNCHANGED << inputs, disk, preview_model, c_songs_copy, c_song_dupes,
                    c_songs_delete, expanded_destination, sync_buttons,
                    sync_start_sensitive, stack, ops >>

-----------------------------------------------------------------------------
(* The entry fields: _destination_path_changed, _export_pattern_changed.   *)

\* the user replaces the text of the destination path entry by t
DestinationChanged(t) ==
    /\ UNCHANGED << player, provider >>
    /\ ops < MaxOps
    /\ t # destination_entry
    /\ ops' = ops + 1
    /\ destination_entry' = t
    /\ UNCHANGED << export_pattern_entry, enabled, library, disk,
                    preview_model, c_songs_copy, c_song_dupes, c_songs_delete,
                    running, expanded_destination, preview_buttons,
                    sync_buttons, sync_start_sensitive, log, stack >>

\* the user replaces the text of the export pattern entry by t
ExportPatternChanged(t) ==
    /\ UNCHANGED << player, provider >>
    /\ ops < MaxOps
    /\ t # export_pattern_entry
    /\ ops' = ops + 1
    /\ export_pattern_entry' = t
    /\ UNCHANGED << destination_entry, enabled, library, disk,
                    preview_model, c_songs_copy, c_song_dupes, c_songs_delete,
                    running, expanded_destination, preview_buttons,
                    sync_buttons, sync_start_sensitive, log, stack >>

-----------------------------------------------------------------------------
(* Manual override of a previewed path: _row_edited.                       *)

\* the user finishes editing row k with new_text
RowEdited(k, new_text) ==
    /\ UNCHANGED << player, provider >>
    /\ k \in 1..Len(preview_model)
    /\ ops < MaxOps
    /\ ops' = ops + 1
    /\ IF export_display(preview_model[k]) # new_text
       THEN LET r == EditBranches(CurrentPlan, k, new_text,
                                  expanded_destination)
            IN  /\ SetPlan(r.st)
                /\ log' = log \o << ChangedLine(r.counter),
                                    SummaryLine(r.st.copy, r.st.dupes,
                                                r.st.delete) >>
       ELSE UNCHANGED << preview_model, c_songs_copy, c_song_dupes,
                         c_songs_delete, log >>
    /\ UNCHANGED << inputs, disk, running, expanded_destination,
                    preview_buttons, sync_buttons, sync_start_sensitive,
                    stack >>

-----------------------------------------------------------------------------
(* Synchronization: _start_sync, _run_sync, _stop_sync.                    *)

\* a slip in the cleanup: nothing is removed
NoDirsRemoved(fs, ds, ls, top) == [ dirs |-> ds, removed |-> << >> ]

\* _remove_empty_dirs: the directories below top, and the links to
\* directories there, are visited children first; the real path of each is
\* taken, and when os.listdir finds nothing in it, it is logged and removed
_remove_empty_dirs(fs, ds, ls, top) ==
    LET order == WalkDirsBottomUp(ds \cup LiveLinks(ds, ls), top)
        F[k \in 0..Len(order)] ==
            IF k = 0 THEN [ dirs |-> ds, removed |-> << >> ]
            ELSE LET dir_path == realpath(ls, order[k])
                 IN  IF /\ dir_path \in F[k - 1].dirs
                        /\ FilesIn(fs, dir_path) = {}
                        /\ SubdirsOf(F[k - 1].dirs, dir_path) = {}
                        /\ { l \in ls : Dirname(l) = dir_path } = {}
                     THEN [ dirs |-> F[k - 1].dirs \ { dir_path },
                            removed |-> Append(F[k - 1].removed, dir_path) ]
                     ELSE F[k - 1]
    IN  F[Len(order)]

\* the entries a synchronization pass iterates over
FrameEntries(frame) == IF frame.live THEN preview_model ELSE frame.entries

\* a slip in the branch below: the folders of the duplicate are created
SyncDuplicateMakesDirs(entry, same) ==
    [ same EXCEPT
        !.lines = << EntryLine("<DUPLICATE>", ExpandUser(entry.export_path)) >>,
        !.dirs = dirs \cup Ancestors(Dirname(ExpandUser(entry.export_path))) ]

\* the branch "Skip duplicates" of the loop of _run_sync: a line is logged
SyncDuplicate(entry, same) ==
    [ same EXCEPT
        !.lines = << EntryLine("<DUPLICATE>", ExpandUser(entry.export_path)) >> ]

\* what the body of the loop of _run_sync does for one entry:
\* [raised, files, dirs, links, lines]
SyncEntry(entry) ==
    LET expanded_path == ExpandUser(entry.export_path)
        same == [ raised |-> FALSE, files |-> files, dirs |-> dirs,
                  links |-> links, lines |-> << >> ]
    IN  IF entry.export_path = EmptyText /\ entry.tag = BLANK
        THEN same
        ELSE IF entry.tag = BLANK
        THEN IF Exists(expanded_path)
             THEN [ same EXCEPT !.lines =
                        << EntryLine(STATUS_EXISTS, expanded_path) >> ]
             ELSE LET song_folders == Dirname(expanded_path)
                      made == dirs \cup Ancestors(song_folders)
                      line == << EntryLine(STATUS_COPY, expanded_path) >>
                  IN  IF MakedirsFails(song_folders)
                      THEN [ same EXCEPT !.raised = TRUE, !.lines = line ]
                      ELSE IF CopyfileFails(EntryFilename(entry), expanded_path)
                      THEN [ same EXCEPT !.raised = TRUE, !.lines = line,
                                         !.dirs = made ]
                      ELSE [ same EXCEPT
                               !.lines = line,
                               !.dirs = made,
                               !.files = WriteFile(files, expanded_path,
                                             files[EntryFilename(entry)]) ]
        ELSE IF entry.tag = DUPLICATE
        THEN SyncDuplicate(entry, same)
        ELSE \* entry.tag = DELETE
             LET line == EntryLine("<DELETE>", EntryFilename(entry))
             IN  IF EntryFilename(entry) \in links
                 THEN [ same EXCEPT
                          !.lines = << line >>,
                          !.links = links \ { EntryFilename(entry) } ]
                 ELSE IF EntryFilename(entry) \in DOMAIN files
                 THEN [ same EXCEPT
                          !.lines = << line >>,
                          !.files = RemoveFile(files, EntryFilename(entry)) ]
                 ELSE IF EntryFilename(entry) \in dirs
                 THEN [ same EXCEPT !.lines = << line >> ]
                 ELSE [ same EXCEPT !.lines =
                          << line, FailedToDelete(EntryFilename(entry)) >> ]

\* the head of the loop over the entries, before entry number frame.i
SyncLoop(lg, fs, ds, ls, frame, n, stk, run, sstart, sstop) ==
    IF frame.i > n
    THEN \* _remove_empty_dirs, return True, _stop_sync(None)
         LET r == _remove_empty_dirs(fs, ds, ls, expanded_destination)
         IN  /\ log' = lg
                       \o [ k \in 1..Len(r.removed) |->
                              EntryLine("<DELETE>", r.removed[k]) ]
                       \o << Line("Finished song synchronization.") >>
             /\ files' = fs
             /\ dirs' = r.dirs
             /\ links' = ls
             /\ stack' = stk
             /\ running' = FALSE
             /\ sync_start_visible' = TRUE
             /\ sync_stop_visible' = FALSE
    ELSE IF ~run
    THEN \* return False: _start_sync returns at once
         /\ log' = Append(lg, Line("Stopped song synchronization."))
         /\ files' = fs
         /\ dirs' = ds
         /\ links' = ls
         /\ stack' = stk
         /\ running' = run
         /\ sync_start_visible' = sstart
         /\ sync_stop_visible' = sstop
    ELSE \* _run_pending_events
         /\ log' = lg
         /\ files' = fs
         /\ dirs' = ds
         /\ links' = ls
         /\ stack' = Append(stk, frame)
         /\ running' = run
         /\ sync_start_visible' = sstart
         /\ sync_stop_visible' = sstop

\* a click on the Start synchronization button: _start_sync up to the first
\* call of _run_pending_events, or to its end
StartSync ==
    /\ UNCHANGED << player, provider >>
    /\ sync_start_visible
    /\ sync_start_sensitive
    /\ ops < MaxOps
    /\ Len(stack) < MaxDepth
    /\ ops' = ops + 1
    /\ SyncLoop(Append(log, Line("Starting song synchronization.")),
                files, dirs, links, SyncFrame(1, TRUE, << >>),
                Len(preview_model),
                stack, TRUE, FALSE, TRUE)
    /\ UNCHANGED << inputs, preview_model, c_songs_copy, c_song_dupes,
                    c_songs_delete, expanded_destination, preview_buttons,
                    sync_start_sensitive >>

\* the body of the loop for entry number i, after _run_pending_events, and
\* on to the next call of _run_pending_events or to the end of the pass.
\* An exception of makedirs or copyfile ends the handler where it is raised.
SyncStep ==
    /\ UNCHANGED << player, provider >>
    /\ stack # << >>
    /\ Top.op = "sync"
    /\ LET frame == Top
           r     == SyncEntry(FrameEntries(frame)[frame.i])
       IN  IF r.raised
           THEN /\ log' = log \o r.lines
                /\ files' = r.files
                /\ dirs' = r.dirs
                /\ links' = r.links
                /\ stack' = Below
                /\ UNCHANGED << running, sync_buttons >>
           ELSE SyncLoop(log \o r.lines, r.files, r.dirs, r.links,
                         [ frame EXCEPT !.i = @ + 1 ],
                         Len(FrameEntries(frame)), Below, running,
                         sync_start_visible, sync_stop_visible)
    /\ UNCHANGED << inputs, preview_model, c_songs_copy, c_song_dupes,
                    c_songs_delete, expanded_destination, preview_buttons,
                    sync_start_sensitive, ops >>

\* a click on the Stop synchronization button: _stop_sync(button)
StopSyncClick ==
    /\ UNCHANGED << player, provider >>
    /\ sync_stop_visible
    /\ log' = Append(log, Line("Stopping song synchronization."))
    /\ running' = FALSE
    /\ sync_start_visible' = TRUE
    /\ sync_stop_visible' = FALSE
    /\ UNCHANGED << inputs, disk, preview_model, c_songs_copy, c_song_dupes,
                    c_songs_delete, expanded_destination, preview_buttons,
                    sync_start_sensitive, stack, ops >>

-----------------------------------------------------------------------------
(* Specifications.                                                         *)

\* no pass is suspended: the main loop runs at the top level
Idle == stack = << >>

\* The user starts a preview, a synchronization or an edit only while no
\* pass is in progress; a pass that is in progress can be stopped.
Next ==
    \/ Idle /\ StartPreview
    \/ PreviewStep
    \/ StopPreviewClick
    \/ Idle /\ \E k \in 1..Len(preview_model) : \E t \in EditTexts :
                  RowEdited(k, t)
    \/ Idle /\ StartSync
    \/ SyncStep
    \/ StopSyncClick
    \/ Idle /\ \E t \in DestinationTexts : DestinationChanged(t)
    \/ Idle /\ \E t \in PatternTexts : ExportPatternChanged(t)

Spec == Init /\ [][Next]_vars

\* Every click and edit is handled whenever the main loop runs, also while
\* a pass is suspended in _run_pending_events.
NextReentrant ==
    \/ StartPreview
    \/ PreviewStep
    \/ StopPreviewClick
    \/ \E k \in 1..Len(preview_model) : \E t \in EditTexts : RowEdited(k, t)
    \/ StartSync
    \/ SyncStep
    \/ StopSyncClick
    \/ \E t \in DestinationTexts : DestinationChanged(t)
    \/ \E t \in PatternTexts : ExportPatternChanged(t)

SpecReentrant == Init /\ [][NextReentrant]_vars

-----------------------------------------------------------------------------
(* Vocabulary of the properties.                                           *)

IsCopy(e) == e.tag = BLANK /\ e.export_path # EmptyText

IsDuplicate(e) == e.tag = DUPLICATE

IsDelete(e) == e.tag = DELETE

IsSkip(e) == e.tag = BLANK /\ e.export_path = EmptyText

Rows == 1..Len(preview_model)

SongRows == { k \in Rows : preview_model[k].song # NoSong }

\* the files the song entries of the plan name
PlannedFiles == { ExpandUser(preview_model[k].export_path) : k \in SongRows }

\* the files below the destination root
FilesUnder(fs, root) == { p \in DOMAIN fs : IsRelativeTo(p, root) }

\* the first words of log line j
Words(j) == log[j][1]

\* the last thing that happened is the successful end of a preview
PreviewJustFinished ==
    log # << >> /\ Words(Len(log)) = "Finished synchronization preview."

\* the position of the last successful end of a preview (0: none)
LastPreviewEnd ==
    LET ends == { j \in 1..Len(log) :
                    Words(j) = "Finished synchronization preview." }
    IN  IF ends = {} THEN 0 ELSE Max(ends)

\* the words of the lines logged after the last successful end of a preview
WordsSincePreview ==
    { Words(j) : j \in (LastPreviewEnd + 1)..Len(log) }

\* the step is the body of the synchronization loop for one entry
SyncStepTaken == stack # << >> /\ Top.op = "sync" /\ stack' # stack

-----------------------------------------------------------------------------
\* C1: when a preview has just finished, the plan begins with one entry per
\* candidate song, in the order of the songs; the entry is Copy when no
\* earlier song is planned to the same file and Duplicate otherwise; with N
\* songs and K distinct files there are K Copy and N - K Duplicate entries
\* and the counters are c_songs_copy = K and c_song_dupes = N - K.
C1_PlanPerSong ==
    PreviewJustFinished =>
        LET songs   == _get_songs_from_queries
            N       == Len(songs)
            dest(k) == ExpandUser(preview_model[k].export_path)
            K       == Cardinality({ dest(k) : k \in 1..N })
        IN  /\ Len(preview_model) >= N
            /\ SongRows = 1..N
            /\ \A k \in 1..N :
                 /\ preview_model[k].song = songs[k]
                 /\ preview_model[k].export_path # EmptyText
                 /\ preview_model[k].tag =
                      IF \A j \in 1..(k - 1) : dest(j) # dest(k)
                      THEN BLANK ELSE DUPLICATE
            /\ Cardinality({ k \in Rows : IsCopy(preview_model[k]) }) = K
            /\ Cardinality({ k \in Rows : IsDuplicate(preview_model[k]) })
                 = N - K
            /\ c_songs_copy = K
            /\ c_song_dupes = N - K

\* a preview of three songs, two of them planned to one file, has finished
C1_Witness ==
    /\ PreviewJustFinished
    /\ Len(_get_songs_from_queries) = 3
    /\ \E k \in Rows : IsDuplicate(preview_model[k])
    /\ c_songs_copy = 2

\* what a walk lists as files below the destination root: the files and the
\* broken links
FoundUnder(root) ==
    FilesUnder(files, root)
    \cup { l \in BrokenLinks(dirs, links) : IsRelativeTo(l, root) }

\* C2: when a preview has just finished, the Delete entries are, one each,
\* the files found below the destination root that no song is planned to;
\* their number is c_songs_delete; a file a song is planned to has no Delete
\* entry.
C2_DeletePerStaleFile ==
    PreviewJustFinished =>
        LET stale == FoundUnder(expanded_destination) \ PlannedFiles
            dels  == { k \in Rows : IsDelete(preview_model[k]) }
        IN  /\ \A k \in dels : /\ preview_model[k].song = NoSong
                               /\ preview_model[k].filename \in stale
            /\ \A p \in stale :
                 Cardinality({ k \in dels : preview_model[k].filename = p }) = 1
            /\ c_songs_delete = Cardinality(stale)

\* a preview has finished with a Delete entry for one file, while another
\* file below the root is the destination of a song
C2_Witness ==
    /\ PreviewJustFinished
    /\ \E k \in Rows : IsDelete(preview_model[k])
    /\ PlannedFiles \cap DOMAIN files # {}

\* C3: a synchronization that ends normally, run on the plan of a successful
\* preview that was not edited since and without a failed deletion, leaves
\* below the destination root exactly the files the songs are planned to.
C3_TreeEqualsPlan ==
    ( /\ LastPreviewEnd > 0
      /\ Words(Len(log)) = "Finished song synchronization."
      /\ WordsSincePreview \cap { "Entry path changed successfully.",
                                  "Starting synchronization preview.",
                                  "Failed to delete:" } = {} )
    => FilesUnder(files, expanded_destination) = PlannedFiles

\* such a synchronization has ended, having written one file and deleted one
C3_Witness ==
    /\ LastPreviewEnd > 0
    /\ Words(Len(log)) = "Finished song synchronization."
    /\ WordsSincePreview \cap { "Entry path changed successfully.",
                                "Starting synchronization preview.",
                                "Failed to delete:" } = {}
    /\ { STATUS_COPY, "<DELETE>" } \subseteq WordsSincePreview
    /\ StaleC \notin DOMAIN files

\* C4: no step changes the content of a file that exists. When the
\* synchronization reaches a Copy entry whose destination exists, it logs
\* 'Skip existing file' and leaves the files as they are; when the
\* destination does not exist, it creates the directories above it and
\* copies the entry's source file to it, unless makedirs or copyfile fails,
\* and then no file changes.
C4_NeverOverwrite ==
    [][ /\ \A p \in DOMAIN files \cap DOMAIN files' : files'[p] = files[p]
        /\ ( SyncStepTaken /\ IsCopy(FrameEntries(Top)[Top.i]) ) =>
             LET e == FrameEntries(Top)[Top.i]
                 x == ExpandUser(e.export_path)
             IN  IF x \in DOMAIN files \/ x \in dirs
                 THEN /\ Len(log') > Len(log)
                      /\ log'[Len(log) + 1] = EntryLine(STATUS_EXISTS, x)
                      /\ files' = files
                 ELSE /\ log'[Len(log) + 1] = EntryLine(STATUS_COPY, x)
                      /\ \/ files' = files
                         \/ /\ x \in DOMAIN files'
                            /\ files'[x] = files[EntryFilename(e)]
                            /\ Ancestors(Dirname(x)) \subseteq dirs'
                      /\ ( /\ ~MakedirsFails(Dirname(x))
                           /\ ~CopyfileFails(EntryFilename(e), x) )
                         => x \in DOMAIN files'
      ]_vars

\* a Copy entry was skipped because its destination existed, and the file
\* found there still has the content it had
C4_Witness ==
    /\ \E j \in 1..Len(log) : log[j] = EntryLine(STATUS_EXISTS, StaleA)
    /\ StaleA \in DOMAIN files
    /\ files[StaleA] = OldContent

\* the plan is the result of a successful preview and of the overrides made
\* since, and no pass is in progress
PlanPreviewedAndEdited ==
    /\ Idle
    /\ LastPreviewEnd > 0
    /\ "Starting synchronization preview." \notin WordsSincePreview

\* the song rows that hold destination path p and are Copy or Duplicate
Holders(model, p) ==
    { j \in 1..Len(model) :
        /\ model[j].song # NoSong
        /\ IsCopy(model[j]) \/ IsDuplicate(model[j])
        /\ model[j].export_path = p }

\* C5: after a successful preview and any overrides, every destination
\* path held by a song entry that is Copy or Duplicate is held by exactly
\* one Copy entry, and its other holders are Duplicate.
C5_OneCopyPerPath ==
    PlanPreviewedAndEdited =>
        \A k \in SongRows :
            LET h == Holders(preview_model, preview_model[k].export_path)
            IN  k \in h =>
                  Cardinality({ j \in h : IsCopy(preview_model[j]) }) = 1

\* C7: after a successful preview and any overrides, the three counters are
\* the numbers of Copy, Duplicate and Delete entries of the plan.
C7_CountersMatchPlan ==
    PlanPreviewedAndEdited =>
        /\ c_songs_copy =
             Cardinality({ k \in Rows : IsCopy(preview_model[k]) })
        /\ c_song_dupes =
             Cardinality({ k \in Rows : IsDuplicate(preview_model[k]) })
        /\ c_songs_delete =
             Cardinality({ k \in Rows : IsDelete(preview_model[k]) })

\* the step is a manual override that changed the plan
EditStepTaken ==
    /\ Idle
    /\ Len(log') = Len(log) + 2
    /\ log'[Len(log) + 1][1] = "Entry path changed successfully."

\* C6: when a Copy entry is overridden to a path that another Copy or
\* Duplicate entry holds, the overridden entry becomes Duplicate, and a
\* Duplicate entry left as the only holder of its old path becomes Copy.
C6_OverrideToUsedPath ==
    [][ EditStepTaken =>
          \A k \in SongRows :
            LET p == preview_model[k].export_path
                q == preview_model'[k].export_path
            IN  ( /\ IsCopy(preview_model[k])
                  /\ q # p
                  /\ q # EmptyText
                  /\ Holders(preview_model, q) \ {k} # {} )
                => /\ IsDuplicate(preview_model'[k])
                   /\ \A j \in Holders(preview_model, p) \ {k} :
                        ( /\ IsDuplicate(preview_model[j])
                          /\ Holders(preview_model', p) = {j} )
                        => IsCopy(preview_model'[j])
      ]_vars

\* C8: once the stop request has been handled, the synchronization copies
\* and deletes nothing more.
C8_StopTakesEffectAtOnce ==
    [][ ( SyncStepTaken /\ ~running ) => ( files' = files /\ dirs' = dirs )
      ]_vars

\* C9: once the stop request has been handled during a synchronization
\* pass, no step of that pass logs 'Finished song synchronization.' or
\* removes a directory, and when the pass returns its last log line is
\* 'Stopped song synchronization.'.
C9_CancelledSync ==
    [][ ( SyncStepTaken /\ ~running ) =>
          /\ \A j \in (Len(log) + 1)..Len(log') :
               log'[j][1] # "Finished song synchronization."
          /\ dirs \subseteq dirs'
          /\ ( /\ stack' = Below
               /\ ~SyncEntry(FrameEntries(Top)[Top.i]).raised )
             => log'[Len(log')] = Line("Stopped song synchronization.")
      ]_vars

\* C10: while a preview or a synchronization pass is suspended in
\* _run_pending_events, no other pass starts and the plan is changed by
\* nothing but the suspended preview pass itself.
C10_NoInterleaving ==
    [][ stack # << >> =>
          /\ Len(stack') <= Len(stack)
          /\ preview_model' # preview_model
               => ( Top.op = "preview" /\ stack' # stack )
      ]_vars

\* the step is the body of the synchronization loop for a Copy entry whose
\* file did not exist and whose copy failed
CopyFailed ==
    /\ SyncStepTaken
    /\ IsCopy(FrameEntries(Top)[Top.i])
    /\ ~Exists(ExpandUser(FrameEntries(Top)[Top.i].export_path))
    /\ ExpandUser(FrameEntries(Top)[Top.i].export_path) \notin DOMAIN files'

\* C11: when creating the directories or copying the file of a Copy entry
\* fails, the failure is logged after the entry's line and the pass goes
\* on: it is suspended before the next entry or it has ended with
\* 'Finished song synchronization.' (or 'Stopped song synchronization.'
\* after a stop request).
C11_CopyFailureNotFatal ==
    [][ CopyFailed =>
          /\ Len(log') > Len(log) + 1
          /\ \/ stack' # Below
             \/ log'[Len(log')][1] \in { "Finished song synchronization.",
                                         "Stopped song synchronization." }
      ]_vars

\* no directory below root is empty
NoEmptyDir(fs, ds, root) ==
    \A d \in ds :
        ( IsRelativeTo(d, root) /\ d # root )
        => ( FilesIn(fs, d) # {} \/ SubdirsOf(ds, d) # {} )

StartPreviewTaken ==
    /\ Len(log') > Len(log)
    /\ log'[Len(log) + 1] = Line("Starting synchronization preview.")

\* C13: a preview started while the destination path or the export pattern
\* is empty logs 'Synchronization failed' with the missing input and ends
\* at once as a failure: the plan, the counters, the files and the
\* directories are what they were, no pass is left in progress, the
\* preview is not logged as finished and the synchronization button is not
\* enabled by it.
C13_EmptyInputs ==
    [][ ( /\ StartPreviewTaken
          /\ destination_entry = EmptyText \/ export_pattern_entry = EmptyText )
        => /\ log' = log \o
                 << Line("Starting synchronization preview."),
                    FailedLine(IF destination_entry = EmptyText
                               THEN "No destination path provided"
                               ELSE "No export pattern provided") >>
           /\ UNCHANGED << preview_model, c_songs_copy, c_song_dupes,
                           c_songs_delete, files, dirs, stack,
                           sync_start_sensitive, expanded_destination >>
           /\ ~running'
      ]_vars

\* a preview failed for want of a destination path while a plan of an
\* earlier preview was shown, and the plan is still there
C13_Witness ==
    /\ log # << >>
    /\ log[Len(log)] = FailedLine("No destination path provided")
    /\ preview_model # << >>
    /\ c_songs_copy > 0

\* the step is the body of the preview loop for one song
PreviewStepTaken == stack # << >> /\ Top.op = "preview" /\ stack' # stack

\* the path rendered for the song of the suspended preview pass does not
\* lie below the destination root
RenderedOutside ==
    LET pp == Parts(PatternFormat(Top.pattern, Top.songs[Top.i]))
        rp == Parts(expanded_destination)
    IN  ~( Len(pp) >= Len(rp) /\ SubSeq(pp, 1, Len(rp)) = rp )

\* C14: when the path rendered for a song does not lie below the
\* destination root, the preview logs 'Synchronization failed: Mismatch
\* between destination path and export pattern' and ends as a failure: no
\* entry is added for this song, for a later song or for a file to delete,
\* the counters stay, the preview is not logged as finished and the
\* synchronization button is not enabled by it.
C14_PatternMismatch ==
    [][ ( PreviewStepTaken /\ RenderedOutside ) =>
          /\ log' = Append(log, FailedLine(
                 "Mismatch between destination path and export pattern"))
          /\ stack' = Below
          /\ UNCHANGED << preview_model, c_songs_copy, c_song_dupes,
                          c_songs_delete, files, dirs, sync_start_sensitive >>
          /\ ~running'
      ]_vars

\* a preview failed with a mismatch although songs were selected and a
\* stale file was there: the plan holds no entry
C14_Witness ==
    /\ Idle
    /\ log # << >>
    /\ log[Len(log)] = FailedLine(
           "Mismatch between destination path and export pattern")
    /\ _get_songs_from_queries # << >>
    /\ FilesUnder(files, expanded_destination) # {}
    /\ preview_model = << >>

\* the songs of the library that an enabled saved search matches
Matched ==
    { song \in 1..Len(library) : \E q \in enabled : QuerySearch(q, song) }

\* a sequence of songs holds exactly the matched songs, each once, in the
\* order of the library
IsSelection(songs) ==
    /\ \A i, j \in 1..Len(songs) : i < j => songs[i] < songs[j]
    /\ { songs[i] : i \in 1..Len(songs) } = Matched

\* C15: the songs a preview pass works on are exactly the songs that at
\* least one enabled saved search matches, each once, in the order of the
\* library; a preview that has just finished planned exactly these songs,
\* and with no search enabled it finished with no song entry.
C15_QueryResult ==
    /\ \A k \in 1..Len(stack) :
         stack[k].op = "preview" => IsSelection(stack[k].songs)
    /\ PreviewJustFinished =>
         /\ IsSelection([ k \in 1..Cardinality(SongRows) |->
                            preview_model[k].song ])
         /\ enabled = {} => SongRows = {}

\* a preview pass works on all three songs although one of them is matched
\* by both enabled searches
C15_Witness ==
    /\ stack # << >>
    /\ Top.op = "preview"
    /\ enabled = Queries
    /\ Top.songs = << 1, 2, 3 >>

\* the plan and the counters after row k is overridden with new_text
Overridden(k, new_text) ==
    IF export_display(preview_model[k]) # new_text
    THEN EditBranches(CurrentPlan, k, new_text, expanded_destination).st
    ELSE CurrentPlan

\* the rows that hold path p in a model as Copy or Duplicate entries
ActiveHolders(model, p) ==
    { j \in 1..Len(model) :
        /\ IsCopy(model[j]) \/ IsDuplicate(model[j])
        /\ model[j].export_path = p }

\* 1 when the condition holds, else 0
Count(b) == IF b THEN 1 ELSE 0

\* C16: when the plan is shown and a Copy, Duplicate or Delete entry is
\* overridden to the empty text, the entry becomes Skip (blank tag, empty
\* path) and the synchronization does nothing for it and logs nothing; the
\* only other entries that change are Duplicate entries left as the only
\* holder of the vacated path, and each of these becomes Copy with its path
\* kept; the counter of the entry's former class drops by one, and every
\* promoted entry moves one from c_song_dupes to c_songs_copy.
C16_OverrideToEmpty ==
    PlanPreviewedAndEdited =>
      \A k \in Rows :
        LET e  == preview_model[k]
            st == Overridden(k, EmptyText)
            changed == { j \in Rows \ {k} : st.model[j] # preview_model[j] }
            sole == { j \in Rows \ {k} :
                        /\ IsDuplicate(preview_model[j])
                        /\ preview_model[j].export_path = e.export_path
                        /\ ActiveHolders(st.model, e.export_path) \ {k} = {j} }
        IN  ( IsCopy(e) \/ IsDuplicate(e) \/ IsDelete(e) ) =>
              /\ Len(st.model) = Len(preview_model)
              /\ IsSkip(st.model[k])
              /\ SyncEntry(st.model[k]) =
                   [ raised |-> FALSE, files |-> files, dirs |-> dirs,
                     lines |-> << >> ]
              /\ changed = sole
              /\ \A j \in sole : st.model[j] = remove_tag(preview_model[j])
              /\ st.copy = c_songs_copy - Count(IsCopy(e))
                             + Cardinality(sole)
              /\ st.dupes = c_song_dupes - Count(IsDuplicate(e))
                              - Cardinality(sole)
              /\ st.delete = c_songs_delete - Count(IsDelete(e))

\* the destination paths of the rows of the plan
PathsInUse == { preview_model[j].export_path : j \in Rows }

\* C17: when the plan is shown, a path is held by exactly one Copy entry and
\* one Duplicate entry, and the Duplicate entry is overridden to a path no
\* entry uses, then both entries are Copy, the overridden one with the new
\* path and the other one unchanged, c_songs_copy has grown by one and
\* c_song_dupes has dropped by one.
C17_DuplicateMovedAway ==
    PlanPreviewedAndEdited =>
      \A k \in Rows : \A j \in Rows : \A t \in EditPaths \ PathsInUse :
        ( /\ IsDuplicate(preview_model[k])
          /\ IsCopy(preview_model[j])
          /\ ActiveHolders(preview_model, preview_model[k].export_path)
               = { j, k } )
        => LET st == Overridden(k, t)
           IN  /\ IsCopy(st.model[k])
               /\ st.model[k].export_path = t
               /\ st.model[j] = preview_model[j]
               /\ st.copy = c_songs_copy + 1
               /\ st.dupes = c_song_dupes - 1
               /\ st.delete = c_songs_delete

\* two songs with the same tags were planned as Copy and Duplicate of one
\* path; after one override both are Copy, of different paths
C17_Witness ==
    /\ PlanPreviewedAndEdited
    /\ "Entry path changed successfully." \in WordsSincePreview
    /\ enabled = { "q1" }
    /\ library[1].text = library[2].text
    /\ Len(preview_model) >= 2
    /\ IsCopy(preview_model[1])
    /\ IsCopy(preview_model[2])
    /\ preview_model[1].export_path = JoinPath(destination_entry, TextA)
    /\ preview_model[2].export_path = JoinPath(destination_entry, TextB2)
    /\ c_songs_copy = 2
    /\ c_song_dupes = 0

\* the texts that name the current value of an entry: the text its cell
\* shows; for a Copy or Duplicate entry also its bare path; for a Delete
\* entry also the name of the file it deletes
CurrentTexts(e) ==
    { export_display(e) }
    \cup ( IF IsCopy(e) \/ ( IsDuplicate(e) /\ e.export_path # EmptyText )
           THEN { e.export_path } ELSE {} )
    \cup ( IF IsDelete(e) THEN { EntryFilename(e) } ELSE {} )

\* C18: overriding an entry, whatever its class, with a text that names its
\* current value changes no entry and no counter.
C18_OverrideIdempotent ==
    \A k \in Rows : \A t \in CurrentTexts(preview_model[k]) :
        Overridden(k, t) = CurrentPlan

\* after a preview that planned a Duplicate entry an override was logged,
\* and the summary is the one the preview gave
C18_Witness ==
    /\ PlanPreviewedAndEdited
    /\ Len(log) >= 5
    /\ Words(Len(log) - 3) = "Synchronization will:"
    /\ Words(Len(log) - 2) = "Finished synchronization preview."
    /\ Words(Len(log) - 1) = "Entry path changed successfully."
    /\ Words(Len(log)) = "Synchronization will:"
    /\ log[Len(log)] = log[Len(log) - 3]
    /\ c_songs_copy = 1
    /\ c_song_dupes = 1
    /\ c_songs_delete = 1
    /\ \E k \in Rows : IsDuplicate(preview_model[k])

\* the step logs the end of a completed synchronization
SyncFinishes ==
    /\ Len(log') > Len(log)
    /\ log'[Len(log')] = Line("Finished song synchronization.")

\* C19: when a synchronization is completed, no directory below the
\* destination root is empty, also none that held only empty directories;
\* every directory above a file is still there, and the destination root is
\* still there.
C19_EmptyDirsRemoved ==
    [][ SyncFinishes =>
          /\ NoEmptyDir(files', dirs', expanded_destination)
          /\ \A p \in DOMAIN files' : Ancestors(Dirname(p)) \subseteq dirs'
          /\ expanded_destination \in dirs => expanded_destination \in dirs'
      ]_vars

\* a completed synchronization deleted the only file of a directory two
\* levels below the root: both levels are gone and the root is there
C19_Witness ==
    /\ log # << >>
    /\ log[Len(log)] = Line("Finished song synchronization.")
    /\ \E j \in 1..Len(log) : log[j] = EntryLine("<DELETE>", StaleC)
    /\ Dirname(StaleC) \notin dirs
    /\ Dirname(Dirname(StaleC)) \notin dirs
    /\ expanded_destination \in dirs

\* the components of a planned path below the destination text it begins
\* with
ComponentsBelow(path, destination) ==
    SelectSeq(SplitOn(SubSeq(path, Len(destination) + 1, Len(path)), Sep),
              LAMBDA c : c # EmptyText)

\* a component holds no unsafe character and no run of underscores
IsSafeComponent(c) ==
    /\ \A i \in 1..Len(c) : c[i] \notin unsafe_filename_chars
    /\ \A i \in 1..(Len(c) - 1) : ~( c[i] = "_" /\ c[i + 1] = "_" )

\* C20: when a preview has just finished and the destination entry still
\* holds the text the preview read, the path of every song entry begins
\* with the destination path exactly as it was entered, and every
\* component after it holds no character of unsafe_filename_chars (these
\* are replaced by '_') and no run of two or more '_'.
C20_SafeComponents ==
    ( /\ PreviewJustFinished
      /\ ExpandUser(destination_entry) = expanded_destination ) =>
      \A k \in SongRows :
        LET path == preview_model[k].export_path
        IN  /\ Len(path) > Len(destination_entry)
            /\ SubSeq(path, 1, Len(destination_entry)) = destination_entry
            /\ \A i \in 1..Len(ComponentsBelow(path, destination_entry)) :
                 IsSafeComponent(ComponentsBelow(path, destination_entry)[i])

-----------------------------------------------------------------------------
-----------------------------------------------------------------------------
\* C22: in every plan, an entry tagged Delete has no song: it stands for a
\* file that a preview found below the destination root.
C22_DeleteHasNoSource ==
    \A k \in Rows :
        IsDelete(preview_model[k]) =>
            /\ preview_model[k].song = NoSong
            /\ IsRelativeTo(preview_model[k].filename, expanded_destination)

-----------------------------------------------------------------------------
\* the executor treats the entry as a Copy: the line it logs for it says
\* 'Writing' or 'Skip existing file'
TreatedAsCopy(e) ==
    LET lines == SyncEntry(e).lines
    IN  lines # << >> /\ lines[1][1] \in { STATUS_COPY, STATUS_EXISTS }

\* the classifications that hold of an entry
Classifications(e) ==
    LET lines == SyncEntry(e).lines
    IN  ( IF lines # << >> /\ lines[1][1] \in { STATUS_COPY, STATUS_EXISTS }
          THEN { "Copy" } ELSE {} )
        \cup ( IF e.tag = DUPLICATE THEN { "Duplicate" } ELSE {} )
        \cup ( IF e.tag = DELETE THEN { "Delete" } ELSE {} )
        \cup ( IF lines = << >> THEN { "Skip" } ELSE {} )

\* C23: in every plan, an entry tagged Duplicate and an entry the executor
\* treats as a Copy have a destination path that is not empty, and of the
\* four classifications Copy, Duplicate, Delete and Skip exactly one holds
\* of every entry.
C23_OneClassification ==
    \A k \in Rows :
        LET e   == preview_model[k]
            cls == Classifications(e)
        IN  /\ e.tag = DUPLICATE => e.export_path # EmptyText
            /\ "Copy" \in cls => e.export_path # EmptyText
            /\ Cardinality(cls) = 1

\* an edited plan holds an entry of each classification, the Skip entry
\* having been made by an override
C23_Witness ==
    /\ "Entry path changed successfully." \in WordsSincePreview
    /\ \A c \in { "Copy", "Duplicate", "Delete", "Skip" } :
         \E k \in Rows : c \in Classifications(preview_model[k])

-----------------------------------------------------------------------------
\* the step is the start of a synchronization pass
SyncStarted ==
    /\ Len(log') > Len(log)
    /\ log'[Len(log) + 1] = Line("Starting song synchronization.")

\* the step is a start, a step or a stop of a preview, or an override
PreviewOrOverride ==
    \/ Len(log') > Len(log)
       /\ log'[Len(log) + 1][1] \in { "Starting synchronization preview.",
                                      "Stopping synchronization preview.",
                                      "Entry path changed successfully." }
    \/ stack # << >> /\ Top.op = "preview" /\ stack' # stack
    \/ ops' = ops + 1 /\ preview_model' = preview_model /\ log' = log

\* C24: previews and overrides leave the file system alone: a step that is
\* neither the start nor a step of a synchronization pass changes no file
\* and no directory, whether the preview it belongs to succeeds, is stopped
\* or fails.
C24_PreviewLeavesDisk ==
    [][ /\ PreviewOrOverride => UNCHANGED << files, dirs >>
        /\ ~(SyncStarted \/ SyncStepTaken) => UNCHANGED << files, dirs >>
      ]_vars

\* a preview that succeeded, an override and a preview that was stopped have
\* taken place, with stale files at the destination
C24_Witness ==
    /\ { "Finished synchronization preview.",
         "Entry path changed successfully.",
         "Stopped synchronization preview." } \subseteq { Words(j) : j \in 1..Len(log) }
    /\ "Starting song synchronization." \notin { Words(j) : j \in 1..Len(log) }
    /\ FilesUnder(files, Home) # {}

-----------------------------------------------------------------------------
\* the entries a synchronization pass may come to: those of the plan and
\* those a suspended pass keeps
EntriesToRun ==
    Range(preview_model)
    \cup UNION { Range(stack[j].entries) : j \in 1..Len(stack) }

\* C25: for an entry that is a Duplicate or a Skip, the body of the
\* synchronization loop creates no directory, copies no file, deletes
\* nothing and does not fail.
C25_NoActionForDuplicateOrSkip ==
    \A e \in EntriesToRun :
        ( IsDuplicate(e) \/ IsSkip(e) ) =>
            LET r == SyncEntry(e)
            IN  r.files = files /\ r.dirs = dirs /\ ~r.raised

\* a synchronization has gone through a plan with a Skip entry, made by an
\* override, and a Duplicate entry, and has finished
C25_Witness ==
    /\ log # << >>
    /\ Words(Len(log)) = "Finished song synchronization."
    /\ { "<DUPLICATE>", "Entry path changed successfully." }
         \subseteq WordsSincePreview
    /\ \E k \in Rows : IsSkip(preview_model[k])
    /\ \E k \in Rows : IsDuplicate(preview_model[k])

-----------------------------------------------------------------------------
\* the position of the start of the most recent preview attempt (0: none)
LastPreviewStart ==
    LET starts == { j \in 1..Len(log) :
                      Words(j) = "Starting synchronization preview." }
    IN  IF starts = {} THEN 0 ELSE Max(starts)

\* the Start synchronization button can be clicked
SyncStartUsable == sync_start_visible /\ sync_start_sensitive

\* the most recent preview attempt was stopped, or aborted by a mismatch
\* between destination path and export pattern
LastPreviewBroken ==
    /\ LastPreviewStart > LastPreviewEnd
    /\ \E j \in (LastPreviewStart + 1)..Len(log) :
         \/ log[j] = Line("Stopped synchronization preview.")
         \/ log[j] = FailedLine(
                "Mismatch between destination path and export pattern")

\* C28: when no pass is under way and the most recent preview attempt was
\* stopped or aborted by a pattern mismatch, so that the plan is not the
\* complete result of that attempt, the Start synchronization button cannot
\* be clicked.
C28_SyncNeedsCompletePreview ==
    ( Idle /\ LastPreviewBroken ) => ~SyncStartUsable

-----------------------------------------------------------------------------
\* C29: in every plan, the file of a Delete entry is not the destination of
\* a Copy or Duplicate entry.
C29_DeleteNotPlanned ==
    \A k \in Rows : \A j \in Rows :
        ( /\ IsDelete(preview_model[k])
          /\ IsCopy(preview_model[j]) \/ IsDuplicate(preview_model[j]) )
        => EntryFilename(preview_model[k])
             # ExpandUser(preview_model[j].export_path)

-----------------------------------------------------------------------------
\* C30: when no preview and no synchronization pass is under way, the
\* running flag is false, both Start buttons are visible and both Stop
\* buttons are hidden, however the last pass ended.
C30_EndResetsControls ==
    Idle =>
        /\ ~running
        /\ preview_start_visible /\ ~preview_stop_visible
        /\ sync_start_visible /\ ~sync_stop_visible

-----------------------------------------------------------------------------
\* C31: in every plan, after a preview and after any sequence of overrides,
\* no two Copy entries have the same destination path string.
C31_CopyPathsDistinct ==
    \A j \in Rows : \A k \in Rows :
        ( /\ j < k
          /\ IsCopy(preview_model[j])
          /\ IsCopy(preview_model[k]) )
        => preview_model[j].export_path # preview_model[k].export_path

\* a plan with two Copy entries, one of which was given its path by an
\* override of a Duplicate entry
C31_Witness ==
    /\ PlanPreviewedAndEdited
    /\ "Entry path changed successfully." \in WordsSincePreview
    /\ c_song_dupes = 0
    /\ \E j \in SongRows : \E k \in SongRows :
         /\ j < k
         /\ IsCopy(preview_model[j])
         /\ IsCopy(preview_model[k])
         /\ preview_model[k].export_path \in EditPaths

-----------------------------------------------------------------------------
\* C32: whatever a step removes lies below the expanded destination root:
\* every file, every link and every directory that is there before the step
\* and gone after it; so no file of a song outside the root is removed.
C32_RemovesOnlyBelowRoot ==
    [][ /\ \A p \in ( DOMAIN files \ DOMAIN files' ) \cup ( links \ links' ) :
             IsRelativeTo(p, expanded_destination)
        /\ \A d \in dirs \ dirs' :
             IsRelativeTo(d, expanded_destination) /\ d # expanded_destination
      ]_vars

-----------------------------------------------------------------------------
\* the number of handlers that logged their start or an override; it is ops
\* when the entry fields were never changed
OpsLogged ==
    Cardinality({ j \in 1..Len(log) :
                    Words(j) \in { "Starting synchronization preview.",
                                   "Starting song synchronization.",
                                   "Entry path changed successfully." } })

\* the positions in the log of the successful ends of previews
PreviewEnds ==
    { j \in 1..Len(log) : Words(j) = "Finished synchronization preview." }

\* a preview has just finished that followed, with the same library, saved
\* searches, pattern and destination, a completed synchronization of the
\* unedited plan of the preview before it, in which nothing failed
PreviewedAfterSync ==
    /\ PreviewJustFinished
    /\ ops = OpsLogged
    /\ \E e1 \in PreviewEnds :
         /\ e1 + 1 < LastPreviewStart
         /\ log[e1 + 1] = Line("Starting song synchronization.")
         /\ log[LastPreviewStart - 1] = Line("Finished song synchronization.")
         /\ \A j \in (e1 + 2)..(LastPreviewStart - 2) :
              Words(j) \in { STATUS_COPY, STATUS_EXISTS, "<DUPLICATE>",
                             "<DELETE>" }

\* C33: the plan of such a preview has no Delete entry, and a
\* synchronization of it copies no file, deletes no file and removes no
\* directory.
C33_SecondSyncChangesNothing ==
    PreviewedAfterSync =>
        /\ \A k \in Rows : ~IsDelete(preview_model[k])
        /\ c_songs_delete = 0
        /\ \A k \in Rows :
             LET r == SyncEntry(preview_model[k])
             IN  /\ ~r.raised
                 /\ r.files = files /\ r.dirs = dirs /\ r.links = links
        /\ _remove_empty_dirs(files, dirs, links,
                              expanded_destination).removed = << >>

-----------------------------------------------------------------------------
\* C34: for every entry that is a Duplicate or a Skip, the body of the
\* synchronization loop appends a line to the log.
C34_DuplicateAndSkipLogged ==
    \A e \in EntriesToRun :
        ( IsDuplicate(e) \/ IsSkip(e) ) => SyncEntry(e).lines # << >>

-----------------------------------------------------------------------------
(* PlaylistPlayer (quodlibet-threadless/player.py).                        *)
(* A player state p is a record: the private fields paused, song, length;  *)
(* the playbin's uri property and state; attached, whether setup has set   *)
(* info and the source; current, the source's current song; idle, the      *)
(* number of __get_song calls queued by gobject.idle_add; calls, the calls *)
(* made on the listener info and the events sent to the playbin.           *)

\* the songs of the playlist
PlayerSongs == { 1, 2, 3 }

\* the songs that have a "~#length", and its value in seconds
HasLength(s) == s \in { 1, 2 }

SongLength(s) == IF s = 1 THEN 1 ELSE 0

\* the lines of __load_song at which loading song s can raise (0: nowhere):
\* song 2 is a file the pipeline may fail to play, at the state change of
\* line 85; song 3 has no "~#length", which raises at line 83
RaisesAt(s) == IF s = 2 THEN { 0, 85 } ELSE IF s = 3 THEN { 83 } ELSE { 0 }

\* gst.MSECOND, in nanoseconds
MSECOND == 1000000

\* int(pos) of a position given in tenths: truncation towards zero
IntOf(pos) == IF pos >= 0 THEN pos \div 10 ELSE - ( ( - pos ) \div 10 )

\* the positions, in tenths of a millisecond, a caller seeks to
SeekPositions == { -5, 0, 5007, 10000, 12000 }

Called(p, call) == [ p EXCEPT !.calls = Append(@, call) ]

\* a slip in the setter: the listener is told also when nothing changes
SetPausedAlwaysTells(p, paused) ==
    LET q == [ p EXCEPT !.paused = paused ]
        r == IF p.attached THEN Called(q, << "set_paused", paused >>) ELSE q
    IN  IF p.uri # NoSong
        THEN [ r EXCEPT !.state = IF paused THEN "PAUSED" ELSE "PLAYING" ]
        ELSE r

\* the setter of the property paused
__set_paused(p, paused) ==
    IF paused # p.paused
    THEN LET q == [ p EXCEPT !.paused = paused ]
             \* info.set_paused; without info the AttributeError is passed
             r == IF p.attached
                  THEN Called(q, << "set_paused", paused >>) ELSE q
         IN  IF p.uri # NoSong
             THEN [ r EXCEPT !.state = IF paused THEN "PAUSED" ELSE "PLAYING" ]
             ELSE r
    ELSE p

\* __load_song(song), raising at line at (0: not raising)
__load_song(p, song, at) ==
    LET p1 == [ p EXCEPT !.state = "NULL", !.uri = song ]
        p2 == [ p1 EXCEPT !.length = SongLength(song) * 1000 ]
    IN  IF at = 83 THEN p1
        ELSE IF at = 85 THEN p2
        ELSE [ p2 EXCEPT !.state = IF p.paused THEN "PAUSED" ELSE "PLAYING" ]

\* a slip in seek: the position is not cut to the length of the song
SeekUncut(p, pos) ==
    IF p.uri # NoSong
    THEN LET at == IF IntOf(pos) > 0 THEN IntOf(pos) ELSE 0
             q  == IF at >= p.length THEN __set_paused(p, TRUE) ELSE p
         IN  Called(Called(q, << "send_event", at * MSECOND >>),
                    << "seek", p.song, at >>)
    ELSE p

\* seek(pos)
seek(p, pos) ==
    IF p.uri # NoSong
    THEN LET at  == IF IntOf(pos) > 0 THEN IntOf(pos) ELSE 0
             end == at >= p.length
             q   == IF end THEN __set_paused(p, TRUE) ELSE p
             cut == IF end THEN p.length ELSE at
         IN  Called(Called(q, << "send_event", cut * MSECOND >>),
                    << "seek", p.song, cut >>)
    ELSE p

\* __get_song, the loading of the current song raising at line at; setting
\* the volume again at its end changes nothing that is modelled
__get_song(p, at) ==
    LET song == p.current
    IN  IF song = NoSong
        THEN Called([ p EXCEPT !.song = NoSong ], << "song_started", NoSong >>)
        ELSE IF at = 0
        THEN Called([ __load_song(p, song, at) EXCEPT !.song = song ],
                    << "song_started", song >>)
        ELSE LET q == Called(__set_paused(__load_song(p, song, at), TRUE),
                             << "missing", song >>)
             IN  Called([ q EXCEPT !.song = NoSong ],
                        << "song_started", NoSong >>)

\* __end(stopped); when not stopped, the source moves on to song then and
\* __get_song is queued
__end(p, stopped, then) ==
    LET q == [ Called(p, << "song_ended", p.song, stopped >>)
                 EXCEPT !.song = NoSong ]
    IN  IF stopped THEN q
        ELSE [ q EXCEPT !.current = then, !.idle = @ + 1 ]

\* what the source's current song can be after its next() or previous()
SourceMoves == PlayerSongs \cup { NoSong }

\* next(), previous(), go_to(song): then is the source's current song after
\* the move, at the line at which loading it raises
next(p, then, at) ==
    __get_song([ __set_paused(__end(p, TRUE, NoSong), FALSE)
                   EXCEPT !.current = then ], at)

previous(p, then, at) ==
    __get_song(__end([ __set_paused(p, FALSE) EXCEPT !.current = then ],
                     TRUE, NoSong), at)

go_to(p, song, at) ==
    __get_song(__end([ p EXCEPT !.current = song ], TRUE, NoSong), at)

\* the variables of the synchronization pane, which no other component
\* touches
pane == << inputs, disk, preview_model, c_songs_copy, c_song_dupes,
           c_songs_delete, running, expanded_destination, preview_buttons,
           sync_buttons, sync_start_sensitive, log, stack >>

\* a call of the player from the application: q is the player after it
PlayerCall(q) ==
    /\ ops' = ops + 1
    /\ player' = q
    /\ UNCHANGED << pane, provider >>

\* setup(info, source, song)
Setup(song) ==
    /\ ops < MaxOps
    /\ ~player.attached
    /\ \E at \in RaisesAt(song) :
         PlayerCall(go_to([ player EXCEPT !.attached = TRUE ], song, at))

\* player.paused = paused
SetPaused(paused) ==
    /\ ops < MaxOps
    /\ PlayerCall(__set_paused(player, paused))

Seek(pos) ==
    /\ ops < MaxOps
    /\ PlayerCall(seek(player, pos))

\* remove(song): the song that plays is ended as if its stream had ended
Remove(song) ==
    /\ ops < MaxOps
    /\ player.attached
    /\ IF player.song = song
       THEN \E then \in SourceMoves : PlayerCall(__end(player, FALSE, then))
       ELSE PlayerCall(player)

\* the playbin signals 'eos': __end(False)
EndOfStream ==
    /\ ops < MaxOps
    /\ player.state = "PLAYING"
    /\ \E then \in SourceMoves : PlayerCall(__end(player, FALSE, then))

\* the main loop runs a queued __get_song
IdleGetSong ==
    /\ player.idle > 0
    /\ \E at \in RaisesAt(player.current) :
         player' = __get_song([ player EXCEPT !.idle = @ - 1 ], at)
    /\ UNCHANGED << pane, provider, ops >>

NextSong ==
    /\ ops < MaxOps
    /\ player.attached
    /\ \E then \in SourceMoves : \E at \in RaisesAt(then) :
         PlayerCall(next(player, then, at))

PreviousSong ==
    /\ ops < MaxOps
    /\ player.attached
    /\ \E then \in SourceMoves : \E at \in RaisesAt(then) :
         PlayerCall(previous(player, then, at))

GoTo(song) ==
    /\ ops < MaxOps
    /\ player.attached
    /\ \E at \in RaisesAt(song) : PlayerCall(go_to(player, song, at))

\* quit()
Quit ==
    /\ ops < MaxOps
    /\ PlayerCall([ player EXCEPT !.state = "NULL" ])

\* the sources the pane starts from while the player is looked at
PaneAtRest ==
    /\ destination_entry = EmptyText
    /\ export_pattern_entry = EmptyText
    /\ enabled = {}
    /\ library = MakeLibrary(<< TextA, TextA, TextB3 >>,
                             << SongFile(1), SongFile(2), SongFile(3) >>)
    /\ DOMAIN files = { SongFile(1), SongFile(2), SongFile(3) }
    /\ links = {}

InitPlayer == Init /\ PaneAtRest

NextPlayer ==
    \/ \E song \in PlayerSongs : Setup(song)
    \/ \E paused \in BOOLEAN : SetPaused(paused)
    \/ \E pos \in SeekPositions : Seek(pos)
    \/ \E song \in PlayerSongs : Remove(song)
    \/ EndOfStream
    \/ IdleGetSong
    \/ NextSong
    \/ PreviousSong
    \/ \E song \in PlayerSongs : GoTo(song)
    \/ Quit

SpecPlayer == InitPlayer /\ [][NextPlayer]_vars

-----------------------------------------------------------------------------
\* the calls song_started and song_ended on the listener
IsStart(call) == call[1] = "song_started"

IsEndOf(call, song) == call[1] = "song_ended" /\ call[2] = song

\* C35: every song_started(s) with a song s is followed by song_ended(s, ..)
\* before any further song_started call.
C35_StartedThenEnded ==
    \A i \in 1..Len(player.calls) : \A j \in 1..Len(player.calls) :
        ( /\ i < j
          /\ IsStart(player.calls[i]) /\ player.calls[i][2] # NoSong
          /\ IsStart(player.calls[j]) )
        => \E k \in (i + 1)..(j - 1) :
             IsEndOf(player.calls[k], player.calls[i][2])

-----------------------------------------------------------------------------
\* the values the listener was told by set_paused, in order
ToldPaused ==
    LET told == SelectSeq(player.calls, LAMBDA c : c[1] = "set_paused")
    IN  [ k \in 1..Len(told) |-> told[k][2] ]

\* C36: when a URI is loaded and the pipeline is not in state NULL, it is in
\* state PAUSED when the flag paused is true and in state PLAYING otherwise;
\* the listener is told by set_paused only of a change: no value twice in a
\* row, and the last value told is the value of the flag.
C36_PipelineFollowsPaused ==
    /\ ( player.uri # NoSong /\ player.state # "NULL" )
       => player.state = ( IF player.paused THEN "PAUSED" ELSE "PLAYING" )
    /\ \A k \in 1..Len(ToldPaused) :
         IF k < Len(ToldPaused)
         THEN ToldPaused[k] # ToldPaused[k + 1]
         ELSE ToldPaused[k] = player.paused

\* a song was loaded while the player was paused, the player was set to
\* play and a seek beyond the end paused it again
C36_Witness ==
    /\ player.uri # NoSong
    /\ player.state = "PAUSED"
    /\ ToldPaused = << FALSE, TRUE >>
    /\ \E k \in 1..Len(player.calls) : player.calls[k][1] = "seek"

-----------------------------------------------------------------------------
\* C40: for every position pos, seek(pos) with a URI loaded sends the
\* pipeline an event for a position of at milliseconds and calls info.seek
\* with the same at, where 0 <= at; when the song of the URI has a length,
\* at is at most that length in milliseconds and the player is paused when
\* pos is not before it. With no URI loaded seek(pos) changes nothing.
C40_SeekWithinSong ==
    \A pos \in SeekPositions :
        LET q  == seek(player, pos)
            n  == Len(q.calls)
            at == q.calls[n][3]
        IN  IF player.uri = NoSong
            THEN q = player
            ELSE /\ n >= Len(player.calls) + 2
                 /\ q.calls[n - 1] = << "send_event", at * MSECOND >>
                 /\ q.calls[n] = << "seek", player.song, at >>
                 /\ 0 <= at
                 /\ HasLength(player.uri) =>
                      /\ at <= SongLength(player.uri) * 1000
                      /\ IntOf(pos) >= SongLength(player.uri) * 1000
                           => q.paused

\* a seek beyond the end of song 1, which was playing, sent the pipeline to
\* the end of the song and paused the player
C40_Witness ==
    /\ player.uri = 1
    /\ player.paused
    /\ \E k \in 2..Len(player.calls) :
         /\ player.calls[k] = << "seek", 1, 1000 >>
         /\ player.calls[k - 1] = << "send_event", 1000 * MSECOND >>
         /\ \E j \in 1..(k - 1) : player.calls[j] = << "set_paused", TRUE >>

-----------------------------------------------------------------------------
(* The GNOME search provider (ext/events/searchprovider.py).               *)

\* id(song): the address of the song object
id(song) == 1000 + song

get_song_id(song) == ToString(id(song))

\* a slip in get_songs_for_ids: the ids are kept as the list they came in
\* and a song is added for every position that holds its id
SongsForIdsRepeated(lib, ids) ==
    LET F[k \in 0..Len(lib)] ==
            IF k = 0 THEN << >>
            ELSE F[k - 1]
                 \o [ j \in 1..Cardinality(
                          { i \in 1..Len(ids) : ids[i] = get_song_id(lib[k]) })
                        |-> lib[k] ]
    IN  F[Len(lib)]

\* get_songs_for_ids(library, ids): the songs of the library, in its order,
\* whose id is in the set of ids; the loop ends when every id is found
get_songs_for_ids(lib, ids) ==
    LET F[k \in 0..Len(lib)] ==
            IF k = 0
            THEN [ songs |-> << >>, ids |-> Range(ids), broken |-> FALSE ]
            ELSE IF F[k - 1].broken \/ get_song_id(lib[k]) \notin F[k - 1].ids
            THEN F[k - 1]
            ELSE [ songs  |-> Append(F[k - 1].songs, lib[k]),
                   ids    |-> F[k - 1].ids \ { get_song_id(lib[k]) },
                   broken |-> F[k - 1].ids \ { get_song_id(lib[k]) } = {} ]
    IN  F[Len(lib)].songs

\* Query(term).search(song): the terms song matches
TermSearch(term, song) ==
    \/ term = "a" /\ song \in { 1, 2 }
    \/ term = "b" /\ song \in { 2, 3 }

\* the query built by "query = Query(''); query &= Query(term)" for every
\* term: a song matches it when it matches every term
QueryAll(terms, song) == \A k \in 1..Len(terms) : TermSearch(terms[k], song)

SongIds(songs) == [ k \in 1..Len(songs) |-> get_song_id(songs[k]) ]

GetInitialResultSet(lib, terms) ==
    IF terms # << >>
    THEN SongIds(SelectSeq(lib, LAMBDA song : QueryAll(terms, song)))
    ELSE SongIds(lib)

GetSubsearchResultSet(lib, previous_results, terms) ==
    SongIds(SelectSeq(get_songs_for_ids(lib, previous_results),
                      LAMBDA song : QueryAll(terms, song)))

\* GetResultMetas(identifiers): the "id" of the metas returned
GetResultMetas(lib, identifiers) ==
    SongIds(get_songs_for_ids(lib, identifiers))

\* a slip in ActivateResult: the player is set to play whatever go_to says
ActivateResultAlwaysPlays(p, identifier, went) ==
    LET songs == get_songs_for_ids(p.library, << identifier >>)
    IN  IF songs = << >> THEN p
        ELSE [ p EXCEPT !.go_to_calls = Append(@, << songs[1], TRUE >>),
                        !.paused = FALSE ]

\* ActivateResult(identifier, terms, timestamp); went is what
\* app.player.go_to(song, True) returns
ActivateResult(p, identifier, went) ==
    LET songs == get_songs_for_ids(p.library, << identifier >>)
    IN  IF songs = << >> THEN p
        ELSE [ p EXCEPT !.go_to_calls = Append(@, << songs[1], TRUE >>),
                        !.paused = IF went THEN FALSE ELSE @ ]

\* the interfaces of the introspection data, in its order
Interfaces ==
    << "org.freedesktop.DBus.Introspectable", "org.gnome.Shell.SearchProvider2" >>

\* connection.register_object raises when an object is exported for the
\* interface already
RegisterRaises(p, k) == \E o \in p.objects : o[2] = Interfaces[k]

\* on_bus_acquired: an object is registered for every interface, up to the
\* first registration that raises
on_bus_acquired(p) ==
    LET F[k \in 0..Len(Interfaces)] ==
            IF k = 0 THEN [ p |-> p, raised |-> FALSE ]
            ELSE IF F[k - 1].raised \/ RegisterRaises(F[k - 1].p, k)
            THEN [ F[k - 1] EXCEPT !.raised = TRUE ]
            ELSE LET q   == F[k - 1].p
                     _id == q.registrations + 1
                 IN  [ p |-> [ q EXCEPT
                                 !.registrations = _id,
                                 !.objects = @ \cup { << _id, Interfaces[k] >> },
                                 !.registered_ids = Append(@, _id) ],
                       raised |-> FALSE ]
    IN  F[Len(Interfaces)].p

\* on_name_lost: every id of _registered_ids is unregistered; the list stays
on_name_lost(p) ==
    [ p EXCEPT
        !.unregister_calls = @ \o p.registered_ids,
        !.objects = { o \in @ : o[1] \notin Range(p.registered_ids) } ]

\* remove_from_connection: the name is released, once
remove_from_connection(p) ==
    IF p.own_id # NoSong
    THEN [ p EXCEPT !.unown_calls = Append(@, p.own_id),
                    !.owned = @ \ { p.own_id },
                    !.own_id = NoSong ]
    ELSE p

\* the lists of search terms GNOME Shell sends
TermLists == { << >>, << "a" >>, << "b" >>, << "a", "b" >> }

\* the lists of ids it sends back as previous results: none, all, some
\* repeated, and one of a song that never was in the library
PreviousResults ==
    { << >>, SongIds(<< 1, 2, 3 >>), SongIds(<< 2, 1, 2 >>),
      << "9", get_song_id(3) >> }

Identifiers == { get_song_id(1), get_song_id(3), "9" }

\* what app.library can hold after songs were removed or added again
ProviderLibraries == { ProviderSongs, << 1, 3 >>, << 2 >>, << >> }

\* a step of the provider, the bus or the application: q is the state after
ProviderStep(q) ==
    /\ provider' = q
    /\ UNCHANGED << pane, player >>

\* GnomeSearchProvider.enabled: SearchProvider() asks for the bus name
PluginEnabled ==
    /\ ops < MaxOps
    /\ ~provider.obj
    /\ ops' = ops + 1
    /\ LET own == Len(provider.unown_calls) + Cardinality(provider.owned) + 1
       IN  ProviderStep([ provider EXCEPT !.obj = TRUE,
                                          !.own_id = own,
                                          !.owned = @ \cup { own },
                                          !.registered_ids = << >> ])

\* Gio has the connection and calls on_bus_acquired
OnBusAcquired ==
    /\ provider.obj
    /\ provider.own_id \in provider.owned
    /\ provider.registered_ids = << >>
    /\ ProviderStep(on_bus_acquired(provider))
    /\ UNCHANGED ops

\* Gio finds the name lost and calls on_name_lost
OnNameLost ==
    /\ ops < MaxOps
    /\ provider.obj
    /\ provider.own_id \in provider.owned
    /\ ops' = ops + 1
    /\ ProviderStep(on_name_lost(provider))

\* GnomeSearchProvider.disabled: remove_from_connection, del self.obj
PluginDisabled ==
    /\ ops < MaxOps
    /\ provider.obj
    /\ ops' = ops + 1
    /\ ProviderStep([ remove_from_connection(provider) EXCEPT !.obj = FALSE ])

\* the application removes songs from app.library or adds them again
LibraryChanged(lib) ==
    /\ ops < MaxOps
    /\ lib # provider.library
    /\ ops' = ops + 1
    /\ ProviderStep([ provider EXCEPT !.library = lib ])

\* an object is registered for the search interface: the bus delivers the
\* calls of its methods to on_method_call
Exported == \E o \in provider.objects : o[2] = Interfaces[2]

\* on_method_call for a method of the search interface, returning result
MethodCall(q, method_name, args, result) ==
    /\ ops < MaxOps
    /\ Exported
    /\ ops' = ops + 1
    /\ ProviderStep([ q EXCEPT !.called = << method_name, args >>,
                               !.result = result ])

CallGetInitialResultSet(terms) ==
    /\ Exported
    /\ MethodCall(provider, "GetInitialResultSet", << terms >>,
                  GetInitialResultSet(provider.library, terms))

CallGetSubsearchResultSet(previous_results, terms) ==
    /\ Exported
    /\ MethodCall(provider, "GetSubsearchResultSet",
                  << previous_results, terms >>,
                  GetSubsearchResultSet(provider.library, previous_results,
                                        terms))

CallGetResultMetas(identifiers) ==
    /\ Exported
    /\ MethodCall(provider, "GetResultMetas", << identifiers >>,
                  GetResultMetas(provider.library, identifiers))

CallActivateResult(identifier, went) ==
    /\ Exported
    /\ MethodCall(ActivateResult(provider, identifier, went),
                  "ActivateResult", << identifier >>, << >>)

InitProvider == Init /\ PaneAtRest

NextProvider ==
    \/ PluginEnabled
    \/ OnBusAcquired
    \/ OnNameLost
    \/ PluginDisabled
    \/ \E lib \in ProviderLibraries : LibraryChanged(lib)
    \/ \E terms \in TermLists : CallGetInitialResultSet(terms)
    \/ \E previous_results \in PreviousResults : \E terms \in TermLists :
         CallGetSubsearchResultSet(previous_results, terms)
    \/ \E identifiers \in PreviousResults : CallGetResultMetas(identifiers)
    \/ \E identifier \in Identifiers : \E went \in BOOLEAN :
         CallActivateResult(identifier, went)

SpecProvider == InitProvider /\ [][NextProvider]_vars

-----------------------------------------------------------------------------
\* C37: for every list of previous results and every list of terms,
\* GetSubsearchResultSet returns the ids among the previous results that are
\* the id of a song of the library matching every term, each once; and for
\* the previous results GetInitialResultSet(t0) of the same library it
\* returns the ids that GetInitialResultSet returns for t0 followed by the
\* terms.
C37_SubsearchRefines ==
    \A terms \in TermLists :
        /\ \A previous_results \in PreviousResults :
             LET lib == provider.library
                 ids == GetSubsearchResultSet(lib, previous_results, terms)
             IN  /\ Range(ids) =
                      { i \in Range(previous_results) :
                          \E k \in 1..Len(lib) :
                              /\ get_song_id(lib[k]) = i
                              /\ \A t \in Range(terms) : TermSearch(t, lib[k]) }
                 /\ \A j \in 1..Len(ids) : \A k \in 1..Len(ids) :
                      ids[j] = ids[k] => j = k
        /\ \A t0 \in TermLists :
             Range(GetSubsearchResultSet(provider.library,
                       GetInitialResultSet(provider.library, t0), terms))
             = Range(GetInitialResultSet(provider.library, t0 \o terms))

\* GetSubsearchResultSet was called with previous results that name a song
\* twice, after a song had left the library, and returned an id
C37_Witness ==
    /\ provider.called # << >>
    /\ provider.called[1] = "GetSubsearchResultSet"
    /\ provider.called[2][1] = SongIds(<< 2, 1, 2 >>)
    /\ provider.library = << 1, 3 >>
    /\ provider.result = SongIds(<< 1 >>)

-----------------------------------------------------------------------------
\* C38: no object id is unregistered twice, no object stays registered
\* once the plugin is disabled, and no bus name is released twice.
C38_UnregisteredOnce ==
    /\ \A j \in 1..Len(provider.unregister_calls) :
         \A k \in 1..Len(provider.unregister_calls) :
            provider.unregister_calls[j] = provider.unregister_calls[k]
            => j = k
    /\ ~provider.obj => provider.objects = {}
    /\ \A j \in 1..Len(provider.unown_calls) :
         \A k \in 1..Len(provider.unown_calls) :
            provider.unown_calls[j] = provider.unown_calls[k] => j = k

-----------------------------------------------------------------------------
\* C39: for every identifier and every answer of go_to, ActivateResult with
\* an identifier of no song of the library leaves the player as it is; with
\* the identifier of a song it calls go_to(song, True) once, and paused is
\* False after it when go_to answered true and unchanged otherwise.
C39_ActivateFrame ==
    \A identifier \in Identifiers : \A went \in BOOLEAN :
        LET q     == ActivateResult(provider, identifier, went)
            found == { k \in 1..Len(provider.library) :
                         get_song_id(provider.library[k]) = identifier }
        IN  IF found = {}
            THEN /\ q.go_to_calls = provider.go_to_calls
                 /\ q.paused = provider.paused
            ELSE /\ \E k \in found :
                      q.go_to_calls =
                          Append(provider.go_to_calls,
                                 << provider.library[k], TRUE >>)
                 /\ q.paused = ( IF went THEN FALSE ELSE provider.paused )

\* ActivateResult was called for a song of the library and go_to answered
\* false: one call of go_to, the player still paused
C39_Witness ==
    /\ provider.called # << >>
    /\ provider.called[1] = "ActivateResult"
    /\ provider.go_to_calls = << << 3, TRUE >> >>
    /\ provider.paused

====
